---- MODULE Spec2Model ----
(***************************************************************************)
(* Model of the emailbot auto-reply pipeline (backend/app):                *)
(*   - services/auto_reply_service.py   AutoReplyManager                   *)
(*   - services/background_tasks.py     the history poller                 *)
(*   - services/email_service.py        send_email                         *)
(*   - services/thread_monitoring_service.py                               *)
(*   - models/gmail_rate_limit.py       GmailRateLimit                     *)
(*   - api/routes/auto_reply.py         webhook and rate-limit endpoints   *)
(* One user is followed.  Time is a counter of hours; the recency window   *)
(* NEW_EMAIL_THRESHOLD is one hour.                                        *)
(***************************************************************************)
EXTENDS Integers, Sequences, FiniteSets, TLC

(* ---------------- bounds ---------------- *)
MaxMsgs == 2
MaxTime == 1
MaxThreadLen == 3
MaxLimits == 2
MaxPending == 1
MaxWorkers == 2
MaxSessions == 2
MaxRanked == 3
MaxUsers == 2
MaxChars == 5
MaxStarts == 3
MaxCycles == 2
MaxBatchUsers == 3

(* ---------------- program constants ---------------- *)
NEW_EMAIL_THRESHOLD == 1
MAX_CONTEXT_THREADS == 3
RRF_K == 60
BATCH_SIZE == 2    \* EMAIL_CHECK_BATCH_SIZE=2; 10 when the variable is not set

MsgIds == 1..MaxMsgs
ThreadIds == 1..MaxMsgs
Stamps == 1..(MaxTime + 1)

(* Every incoming message opens its own thread. *)
ThreadOf(m) == m

NoCursor == -1
NoRecord == [category |-> "<none>", message_count |-> 0]
NoLimit == [retry_after |-> -1, is_active |-> FALSE]

VARIABLES
    now,                    \* wall clock, in hours
    mailbox,                \* provider side: thread id -> messages in provider order
    labels,                 \* provider side: message id -> label ids of the message
    history,                \* provider side: change log, message ids in arrival order
    gmail_rate_limits,      \* table gmail_rate_limits (user 1, limit_type send_email)
    processed_message_ids,  \* AutoReplyManager.processed_message_ids
    monitored_threads,      \* ThreadMonitoringService.monitored_threads
    vector_index,           \* vector store: thread id -> stored record
    last_history_ids,       \* background_tasks.last_history_ids[user]
    auto_reply_configs,     \* routes/auto_reply.auto_reply_configs[user]
    pending,                \* BackgroundTasks queue of the webhook
    poll,                   \* position of the poller inside check_emails_for_user
    result,                 \* what the last finished handler returned
    workers,                \* interleaved process_single_email runs (webhook task, poller thread)
    sessions                \* interleaved GmailRateLimit.add_limit runs in separate db sessions

vars == <<now, mailbox, labels, history, gmail_rate_limits, processed_message_ids,
          monitored_threads, vector_index, last_history_ids,
          auto_reply_configs, pending, poll, result, workers, sessions>>

(* ---------------- helpers ---------------- *)
Last(s) == s[Len(s)]

(* The mutable world a handler works on. *)
World == [mailbox |-> mailbox,
          gmail_rate_limits |-> gmail_rate_limits,
          processed_message_ids |-> processed_message_ids,
          monitored_threads |-> monitored_threads,
          vector_index |-> vector_index,
          send_calls |-> 0,
          replies |-> 0,
          upserts |-> 0]

(* Number of automated replies (messages of the user) in a thread. *)
RepliesIn(msgs) == Cardinality({i \in 1..Len(msgs) : msgs[i].sender = "user"})

(* ---------------- GmailRateLimit ---------------- *)
ActiveIdx(table) == {i \in 1..Len(table) : table[i].is_active}

InEffectIdx(table, t) == {i \in ActiveIdx(table) : table[i].retry_after > t}

(* The query ends in .first() without an order; the row it returns is      *)
(* determined whenever at most one row is active.                           *)
get_active_limit(table, t) ==
    IF InEffectIdx(table, t) = {} THEN NoLimit
    ELSE table[CHOOSE i \in InEffectIdx(table, t) : \A j \in InEffectIdx(table, t) : i <= j]

Deactivate(table, idx) ==
    [i \in 1..Len(table) |->
        IF i \in idx THEN [table[i] EXCEPT !.is_active = FALSE] ELSE table[i]]

(* add_limit in one piece: the query of the active rows, the update and the insert. *)
add_limit(table, retry_after) ==
    Append(Deactivate(table, ActiveIdx(table)),
           [retry_after |-> retry_after, is_active |-> TRUE])

(* ---------------- gateway outcomes and error texts ---------------- *)
(* An error text is kept by what the code looks for in it:                 *)
(*   rle     "rate limit exceeded" occurs (case-insensitively)             *)
(*   has429  "429" occurs                                                  *)
(*   until   a timestamp follows "until ": with fractional seconds and Z   *)
(*           ("frac"), without fractional seconds ("nofrac"), or none      *)
(*   retry   what follows "Retry after ": a timestamp ("stamp"), other     *)
(*           characters of the class [0-9\-T:\.Z] ("junk"), or none        *)
(*   ts      the instant the timestamp denotes                             *)
SendOk == [ok |-> TRUE, rle |-> FALSE, has429 |-> FALSE, until |-> "none",
           retry |-> "none", ts |-> 0]

ErrText(rle, has429, until, retry, ts) ==
    [ok |-> FALSE, rle |-> rle, has429 |-> has429, until |-> until,
     retry |-> retry, ts |-> ts]

SendErrors ==
    {ErrText(TRUE, FALSE, "frac", "none", s) : s \in Stamps}
    \cup {ErrText(TRUE, h, "nofrac", "none", MaxTime + 1) : h \in BOOLEAN}
    \cup {ErrText(TRUE, TRUE, "none", "stamp", s) : s \in Stamps}
    \cup {ErrText(TRUE, h, "none", "none", 0) : h \in BOOLEAN}
    \cup {ErrText(TRUE, TRUE, "none", "junk", 0)}
    \cup {ErrText(FALSE, h, "none", "none", 0) : h \in BOOLEAN}

(* re.search(r"until (\d{4}-\d{2}-\d{2}T\d{2}:\d{2}:\d{2}\.\d+Z)", text) *)
UntilMatch(text) == text.until = "frac"

(* re.search(r"Retry after ([0-9\-T:\.Z]+)", text) *)
RetryAfterMatch(text) == text.retry \in {"stamp", "junk"}

(* dateutil parser.parse of the matched group succeeds *)
ParseOk(text) == text.retry = "stamp"

(* str(HTTPException(status_code, detail)) is "<status_code>: <detail>" *)
StrHTTPException(status_code, detail) ==
    [detail EXCEPT !.has429 = detail.has429 \/ status_code = 429]

NoException == [ok |-> TRUE, rle |-> FALSE, has429 |-> FALSE, until |-> "none",
                retry |-> "none", ts |-> 0]

(* ---------------- email_service.send_email ---------------- *)
(* out is what the gateway's messages().send does for this call. *)
send_email(w, thread_id, out) ==
    IF out.ok
    THEN [w |-> [w EXCEPT !.mailbox[thread_id] =
                        Append(@, [sender |-> "user", date |-> now]),
                    !.send_calls = @ + 1,
                    !.replies = @ + 1],
          raised |-> NoException]
    ELSE IF out.rle /\ UntilMatch(out)
    THEN [w |-> [w EXCEPT !.gmail_rate_limits = add_limit(@, out.ts),
                          !.send_calls = @ + 1],
          raised |-> StrHTTPException(429,
                        ErrText(TRUE, FALSE, "none", "stamp", out.ts))]
    ELSE [w |-> [w EXCEPT !.send_calls = @ + 1],
          raised |-> StrHTTPException(500, out)]

(* ---------------- category texts ---------------- *)
(* str.lower() on the category texts that occur. *)
lower(s) ==
    CASE s \in {"Irrelevant", "IRRELEVANT", "irrelevant"} -> "irrelevant"
      [] s \in {"Job Posting", "job posting"} -> "job posting"
      [] s \in {"Candidate", "candidate"} -> "candidate"
      [] s \in {"Questions", "questions"} -> "questions"
      [] s = "Discussion Topics" -> "discussion topics"
      [] s = "Event" -> "event"
      [] s = "Other" -> "other"
      [] s = "General" -> "general"
      [] OTHER -> s

(* ---------------- ThreadMonitoringService ---------------- *)
register_thread_for_monitoring(w, thread_id) ==
    [w EXCEPT !.monitored_threads = @ \cup {thread_id}]

(* ---------------- AutoReplyManager.generate_and_send_reply ---------------- *)
(* classification: the classifier's label; reply: the model produced text;  *)
(* out: the gateway's behaviour on send.                                    *)
Reply(w, sent, status, retry_after, gated) ==
    [w |-> w, reply_sent |-> sent, status |-> status,
     retry_after |-> retry_after, gated |-> gated]

(* generate_and_send_reply without the check of the active limit *)
generate_and_send_reply_no_gate(w, thread_id, classification, reply, out) ==
    IF lower(classification) = "irrelevant"
    THEN Reply(w, FALSE, "skipped", -1, FALSE)
    ELSE IF ~reply
    THEN Reply(w, FALSE, "none", -1, FALSE)
    ELSE LET s == send_email(w, thread_id, out) IN
         IF s.raised = NoException
         THEN Reply(register_thread_for_monitoring(s.w, thread_id),
                    TRUE, "sent", -1, FALSE)
         ELSE IF s.raised.has429 /\ s.raised.rle
         THEN IF RetryAfterMatch(s.raised) /\ ParseOk(s.raised)
              THEN Reply([s.w EXCEPT !.gmail_rate_limits = add_limit(@, s.raised.ts)],
                         FALSE, "rate_limited", s.raised.ts, FALSE)
              ELSE Reply(s.w, FALSE, "rate_limited", -1, FALSE)
         ELSE Reply(s.w, FALSE, "none", -1, FALSE)

(* generate_and_send_reply that does not register the thread after the send *)
generate_and_send_reply_unregistered(w, thread_id, classification, reply, out) ==
    LET active_limit == get_active_limit(w.gmail_rate_limits, now) IN
    IF active_limit # NoLimit
    THEN Reply(w, FALSE, "rate_limited", active_limit.retry_after, TRUE)
    ELSE IF lower(classification) = "irrelevant"
    THEN Reply(w, FALSE, "skipped", -1, FALSE)
    ELSE IF ~reply
    THEN Reply(w, FALSE, "none", -1, FALSE)
    ELSE LET s == send_email(w, thread_id, out) IN
         IF s.raised = NoException
         THEN Reply(s.w, TRUE, "sent", -1, FALSE)
         ELSE IF s.raised.has429 /\ s.raised.rle
         THEN IF RetryAfterMatch(s.raised) /\ ParseOk(s.raised)
              THEN Reply([s.w EXCEPT !.gmail_rate_limits = add_limit(@, s.raised.ts)],
                         FALSE, "rate_limited", s.raised.ts, FALSE)
              ELSE Reply(s.w, FALSE, "rate_limited", -1, FALSE)
         ELSE Reply(s.w, FALSE, "none", -1, FALSE)

generate_and_send_reply(w, thread_id, classification, reply, out) ==
    LET active_limit == get_active_limit(w.gmail_rate_limits, now) IN
    IF active_limit # NoLimit
    THEN Reply(w, FALSE, "rate_limited", active_limit.retry_after, TRUE)
    ELSE IF lower(classification) = "irrelevant"
    THEN Reply(w, FALSE, "skipped", -1, FALSE)
    ELSE IF ~reply
    THEN Reply(w, FALSE, "none", -1, FALSE)
    ELSE LET s == send_email(w, thread_id, out) IN
         IF s.raised = NoException
         THEN Reply(register_thread_for_monitoring(s.w, thread_id),
                    TRUE, "sent", -1, FALSE)
         ELSE IF s.raised.has429 /\ s.raised.rle
         THEN IF RetryAfterMatch(s.raised) /\ ParseOk(s.raised)
              THEN Reply([s.w EXCEPT !.gmail_rate_limits = add_limit(@, s.raised.ts)],
                         FALSE, "rate_limited", s.raised.ts, FALSE)
              ELSE Reply(s.w, FALSE, "rate_limited", -1, FALSE)
         ELSE Reply(s.w, FALSE, "none", -1, FALSE)

(* ---------------- get_thread(store_embedding=True) and the vector store ---------------- *)
(* vector_db.upsert_thread: a thread whose category is the irrelevant       *)
(* sentinel is not stored; otherwise the record of the thread is replaced.  *)
(* upserts counts the writes to the index.                                  *)
(* The value upsert_thread returns is ok; idx is what the call finds:       *)
(* "ok", "no_embedding" (the thread data carries no embedding) or "error"   *)
(* (the index raises).                                                      *)
Upserted(w, ok) == [w |-> w, ok |-> ok]

(* upsert_thread that compares the category with the sentinel as written *)
upsert_thread_exact_case(w, thread_id, category, idx) ==
    IF category = "irrelevant" THEN Upserted(w, TRUE)
    ELSE IF idx = "no_embedding" THEN Upserted(w, FALSE)
    ELSE IF idx = "error" THEN Upserted(w, FALSE)
    ELSE Upserted([w EXCEPT !.vector_index[thread_id] =
                       [category |-> category,
                        message_count |-> Len(w.mailbox[thread_id])],
                      !.upserts = @ + 1],
                  TRUE)

upsert_thread(w, thread_id, category, idx) ==
    IF lower(category) = "irrelevant" THEN Upserted(w, TRUE)
    ELSE IF idx = "no_embedding" THEN Upserted(w, FALSE)
    ELSE IF idx = "error" THEN Upserted(w, FALSE)
    ELSE Upserted([w EXCEPT !.vector_index[thread_id] =
                       [category |-> category,
                        message_count |-> Len(w.mailbox[thread_id])],
                      !.upserts = @ + 1],
                  TRUE)

(* get_thread builds the thread response without a category key, so the    *)
(* record it upserts carries the empty category; what upsert_thread returns *)
(* is dropped, an exception is printed.                                     *)
get_thread_store_embedding(w, thread_id) == upsert_thread(w, thread_id, "", "ok").w

(* ThreadMonitoringService.process_gmail_push_notification.  mf is what   *)
(* the look-ups meet: "ok", "get_error" (messages().get raises),            *)
(* "fetch_error" (the fetch from the index fails, get_thread_by_id returns  *)
(* None), "update_error" (get_thread raises while the thread is updated).   *)
Monitored(w, success, message) == [w |-> w, success |-> success, message |-> message]

(* the notification handler without the registration of the thread *)
thread_monitoring_notification_unregistered(w, email_id, mf) ==
    LET thread_id == ThreadOf(email_id) IN
    IF mf = "get_error"
    THEN Monitored(w, FALSE, "Error processing notification")
    ELSE IF mf = "fetch_error" \/ w.vector_index[thread_id] = NoRecord
    THEN Monitored(w, TRUE, "Thread not monitored (no prior interaction)")
    ELSE IF mf = "update_error"
    THEN Monitored(w, FALSE, "Error updating thread")
    ELSE Monitored(get_thread_store_embedding(w, thread_id),
                   TRUE, "Thread updated in vector database")

thread_monitoring_notification(w, email_id, mf) ==
    LET thread_id == ThreadOf(email_id) IN
    IF mf = "get_error"
    THEN Monitored(w, FALSE, "Error processing notification")
    ELSE IF mf = "fetch_error" \/ w.vector_index[thread_id] = NoRecord
    THEN Monitored(w, TRUE, "Thread not monitored (no prior interaction)")
    ELSE IF mf = "update_error"
    THEN Monitored(register_thread_for_monitoring(w, thread_id),
                   FALSE, "Error updating thread")
    ELSE Monitored(get_thread_store_embedding(
                       register_thread_for_monitoring(w, thread_id), thread_id),
                   TRUE, "Thread updated in vector database")

(* The notification as process_single_email raises it, all look-ups answering. *)
monitor_notification(w, email_id) == thread_monitoring_notification(w, email_id, "ok").w

(* ---------------- AutoReplyManager._user_already_replied ---------------- *)
_user_already_replied(messages) ==
    IF Len(messages) < 2 THEN FALSE
    ELSE \E i \in 1..(Len(messages) - 1) : messages[i].sender = "user"

(* latest_time > now - NEW_EMAIL_THRESHOLD *)
IsRecent(messages) == Last(messages).date > now - NEW_EMAIL_THRESHOLD

(* ---------------- what can go wrong while one message is handled ---------------- *)
Happy == [get |-> "ok", classification |-> "Questions", reply |-> TRUE, send |-> SendOk]

(* One deviation from the happy path per handled message. *)
Faults ==
    {Happy}
    \cup {[Happy EXCEPT !.get = g] : g \in {"error", "no_thread", "thread_error"}}
    \cup {[Happy EXCEPT !.classification = c] : c \in {"Irrelevant", "<fail>"}}
    \cup {[Happy EXCEPT !.reply = FALSE]}
    \cup {[Happy EXCEPT !.send = e] : e \in SendErrors}

(* ---------------- AutoReplyManager.process_single_email ---------------- *)
Ret(w, kind, success, message) ==
    [w |-> w, kind |-> kind, success |-> success, message |-> message]

(* process_single_email_check without the look-up in processed_message_ids *)
process_single_email_check_no_cache(w, email_id, f) ==
    LET thread_id == ThreadOf(email_id)
        messages == w.mailbox[thread_id]
    IN
    IF get_active_limit(w.gmail_rate_limits, now) # NoLimit
    THEN Ret(w, "dict", FALSE, "Gmail sending rate limit in effect")
    ELSE IF f.get = "error" \/ messages = <<>>
    THEN Ret(w, "dict", FALSE, "Error getting message")
    ELSE IF f.get = "no_thread"
    THEN Ret(w, "dict", FALSE, "No thread ID found for message")
    ELSE IF f.get = "thread_error"
    THEN Ret(monitor_notification(w, email_id), "dict", FALSE, "Error processing email")
    ELSE IF ~IsRecent(messages) \/ _user_already_replied(messages)
    THEN Ret(monitor_notification(w, email_id), "dict", TRUE,
             "Email skipped (too old or already replied)")
    ELSE IF f.classification = "<fail>"
    THEN Ret(monitor_notification(w, email_id), "dict", FALSE, "Error processing email")
    ELSE IF lower(f.classification) = "irrelevant"
    THEN Ret(w, "tuple", FALSE, "skipped")
    ELSE Ret(w, "continue", TRUE, "")

(* The handler up to the decision to reply (lines 1104-1260): kind is      *)
(* "continue" when it goes on to generate_and_send_reply.                   *)
process_single_email_check(w, email_id, f) ==
    LET thread_id == ThreadOf(email_id)
        messages == w.mailbox[thread_id]
    IN
    IF get_active_limit(w.gmail_rate_limits, now) # NoLimit
    THEN Ret(w, "dict", FALSE, "Gmail sending rate limit in effect")
    ELSE IF f.get = "error" \/ messages = <<>>
    THEN Ret(w, "dict", FALSE, "Error getting message")
    ELSE IF f.get = "no_thread"
    THEN Ret(w, "dict", FALSE, "No thread ID found for message")
    ELSE IF f.get = "thread_error"
    THEN Ret(monitor_notification(w, email_id), "dict", FALSE, "Error processing email")
    ELSE IF email_id \in w.processed_message_ids
    THEN Ret(w, "dict", TRUE, "Email already processed")
    ELSE IF ~IsRecent(messages) \/ _user_already_replied(messages)
    THEN Ret(monitor_notification(w, email_id), "dict", TRUE,
             "Email skipped (too old or already replied)")
    ELSE IF f.classification = "<fail>"
    THEN Ret(monitor_notification(w, email_id), "dict", FALSE, "Error processing email")
    ELSE IF lower(f.classification) = "irrelevant"
    THEN Ret(w, "tuple", FALSE, "skipped")
    ELSE Ret(w, "continue", TRUE, "")

(* The rest of the handler (lines 1262-1315): the reply, the monitoring    *)
(* hook and the entry in processed_message_ids.                             *)
process_single_email_reply(w, email_id, f) ==
    LET g == generate_and_send_reply(w, ThreadOf(email_id), f.classification,
                                     f.reply, f.send)
        m == monitor_notification(g.w, email_id)
    IN
    IF g.reply_sent
    THEN Ret([m EXCEPT !.processed_message_ids = @ \cup {email_id}],
             "dict", TRUE, "Auto-reply sent successfully")
    ELSE IF g.status = "rate_limited"
    THEN Ret(m, "dict", FALSE, "Gmail sending rate limit reached")
    ELSE Ret(m, "dict", FALSE, "Failed to send auto-reply")

(* The handler run without interruption. *)
process_single_email(w, email_id, f) ==
    LET c == process_single_email_check(w, email_id, f) IN
    IF c.kind = "continue" THEN process_single_email_reply(c.w, email_id, f) ELSE c

(* ---------------- state ---------------- *)
(* The value a handler returned to its caller.  status and retry_after are  *)
(* the rate-limit details of the value, send_calls the number of calls of   *)
(* the gateway's send the handler made, gateway what the gateway answered.  *)
Result(op, success, message, status, retry_after, send_calls, gateway) ==
    [op |-> op, success |-> success, message |-> message, status |-> status,
     retry_after |-> retry_after, send_calls |-> send_calls, gateway |-> gateway]

IdlePoll == [pc |-> "idle", todo |-> <<>>, new_history_id |-> NoCursor,
             replied_count |-> 0, failures |-> 0]

(* Everything but the value last returned. *)
InitWorld ==
    /\ now = 0
    /\ mailbox = [t \in ThreadIds |-> <<>>]
    /\ labels = [m \in MsgIds |-> {}]
    /\ history = <<>>
    /\ gmail_rate_limits = <<>>
    /\ processed_message_ids = {}
    /\ monitored_threads = {}
    /\ vector_index = [t \in ThreadIds |-> NoRecord]
    /\ last_history_ids = NoCursor
    /\ auto_reply_configs = [enabled |-> TRUE, push_notification_history_id |-> NoCursor]
    /\ pending = <<>>
    /\ poll = IdlePoll
    /\ workers = <<>>
    /\ sessions = <<>>

Init ==
    /\ InitWorld
    /\ result = [op |-> "none", success |-> TRUE, message |-> "", status |-> "none",
                 retry_after |-> -1, send_calls |-> 0, gateway |-> SendOk]

(* The bounded part of the world stays inside the bounds. *)
WithinBounds(w) ==
    /\ \A t \in ThreadIds : Len(w.mailbox[t]) <= MaxThreadLen
    /\ Len(w.gmail_rate_limits) <= MaxLimits

Commit(w) ==
    /\ WithinBounds(w)
    /\ mailbox' = w.mailbox
    /\ gmail_rate_limits' = w.gmail_rate_limits
    /\ processed_message_ids' = w.processed_message_ids
    /\ monitored_threads' = w.monitored_threads
    /\ vector_index' = w.vector_index

(* ---------------- environment ---------------- *)
(* A message arrives at the provider: a new thread, a change-log entry. *)
Arrive(m, l) ==
    /\ mailbox[ThreadOf(m)] = <<>>
    /\ labels' = [labels EXCEPT ![m] = l]
    /\ mailbox' = [mailbox EXCEPT ![ThreadOf(m)] = <<[sender |-> "ext", date |-> now]>>]
    /\ history' = Append(history, m)
    /\ UNCHANGED <<now, gmail_rate_limits, processed_message_ids, monitored_threads,
                   vector_index, last_history_ids, auto_reply_configs,
                   pending, poll, result, workers, sessions>>

Tick ==
    /\ now < MaxTime
    /\ now' = now + 1
    /\ UNCHANGED <<mailbox, labels, history, gmail_rate_limits, processed_message_ids,
                   monitored_threads, vector_index, last_history_ids,
                   auto_reply_configs, pending, poll, result, workers, sessions>>

(* update_auto_reply_config: the user switches auto-reply on or off. *)
UpdateConfig ==
    /\ auto_reply_configs' = [auto_reply_configs EXCEPT !.enabled = ~@]
    /\ UNCHANGED <<now, mailbox, labels, history, gmail_rate_limits, processed_message_ids,
                   monitored_threads, vector_index, last_history_ids,
                   pending, poll, result, workers, sessions>>

(* ---------------- routes/auto_reply.gmail_webhook ---------------- *)
Payloads ==
    {[kind |-> k, id |-> 0] : k \in {"no_message", "undecodable", "empty"}}
    \cup {[kind |-> "emailId", id |-> m] : m \in MsgIds}
    \cup {[kind |-> "historyId", id |-> 0]}

GoodRequest(payload) ==
    [json |-> "ok", secret |-> "ok", subscription |-> "ok", payload |-> payload]

(* The well-formed requests, and the requests that fail one check: the     *)
(* body is no JSON or no JSON object, the secret header is wrong (or no     *)
(* secret is configured, and then the header is not looked at), the         *)
(* subscription is missing, names no user or an unknown user, the look-up   *)
(* of the user fails.                                                       *)
WebhookRequests ==
    {GoodRequest(p) : p \in Payloads}
    \cup {[GoodRequest(p) EXCEPT !.json = x] : p \in Payloads, x \in {"error", "number"}}
    \cup {[GoodRequest(p) EXCEPT !.secret = x] : p \in Payloads, x \in {"wrong", "not_configured"}}
    \cup {[GoodRequest(p) EXCEPT !.subscription = x] :
              p \in Payloads,
              x \in {"missing", "no_user_id", "unknown_user", "db_error"}}

(* The body of the try block (lines 746-795): the response it returns,     *)
(* whether it raised, whether it scheduled the continuation.               *)
Ack(raised, scheduled) ==
    [success |-> TRUE, message |-> "Webhook received",
     raised |-> raised, scheduled |-> scheduled]

(* the try block without the comparison of the secret header *)
WebhookTry_no_secret_check(req) ==
    IF req.json = "error" THEN Ack(TRUE, FALSE)
    ELSE IF req.json = "number" THEN Ack(TRUE, FALSE)
    ELSE IF req.subscription \in {"missing", "no_user_id"} THEN Ack(FALSE, FALSE)
    ELSE IF req.subscription = "db_error" THEN Ack(TRUE, FALSE)
    ELSE IF req.subscription = "unknown_user" THEN Ack(FALSE, FALSE)
    ELSE Ack(FALSE, TRUE)

WebhookTry(req) ==
    IF req.json = "error" THEN Ack(TRUE, FALSE)
    ELSE IF req.secret = "wrong" THEN Ack(FALSE, FALSE)
    ELSE IF req.json = "number" THEN Ack(TRUE, FALSE)
    ELSE IF req.subscription \in {"missing", "no_user_id"} THEN Ack(FALSE, FALSE)
    ELSE IF req.subscription = "db_error" THEN Ack(TRUE, FALSE)
    ELSE IF req.subscription = "unknown_user" THEN Ack(FALSE, FALSE)
    ELSE Ack(FALSE, TRUE)

(* gmail_webhook whose except clause lets the exception out: the framework *)
(* answers 500 without a success body                                       *)
gmail_webhook_response_reraise(req) ==
    LET t == WebhookTry(req) IN
    IF t.raised
    THEN [success |-> FALSE, message |-> "Internal Server Error",
          raised |-> TRUE, scheduled |-> FALSE]
    ELSE t

gmail_webhook_response(req) ==
    LET t == WebhookTry(req) IN
    IF t.raised
    THEN [success |-> TRUE, message |-> "Webhook received, processing internally",
          raised |-> FALSE, scheduled |-> FALSE]
    ELSE t

gmail_webhook(req) ==
    /\ LET resp == gmail_webhook_response(req) IN
       /\ result' = Result("gmail_webhook", resp.success, resp.message,
                           IF resp.raised THEN "raised" ELSE "none", -1, 0, SendOk)
       /\ IF resp.scheduled
          THEN /\ Len(pending) < MaxPending
               /\ pending' = Append(pending, req.payload)
          ELSE UNCHANGED pending
    /\ UNCHANGED <<now, mailbox, labels, history, gmail_rate_limits, processed_message_ids,
                   monitored_threads, vector_index, last_history_ids,
                   auto_reply_configs, poll, workers, sessions>>

(* routes/auto_reply._process_webhook_message: the background continuation. *)
_process_webhook_message(f) ==
    /\ pending # <<>>
    /\ pending' = Tail(pending)
    /\ LET payload == Head(pending)
           r == IF ~auto_reply_configs.enabled
                THEN Ret(World, "none", FALSE, "disabled")
                ELSE IF payload.kind \in {"no_message", "undecodable"}
                THEN Ret(World, "none", FALSE, "invalid payload")
                ELSE IF get_active_limit(gmail_rate_limits, now) # NoLimit
                THEN Ret(World, "none", FALSE, "rate limited")
                ELSE IF payload.kind = "emailId"
                THEN process_single_email(World, payload.id, f)
                ELSE IF payload.kind = "historyId"
                THEN Ret(World, "none", FALSE, "NameError: timedelta")
                ELSE Ret(World, "none", FALSE, "no ids")
       IN Commit(r.w)
    /\ UNCHANGED <<now, labels, history, last_history_ids, auto_reply_configs,
                   poll, result, workers, sessions>>

(* ---------------- background_tasks.check_emails_for_user ---------------- *)
(* The poller is one thread: a cycle is check_emails_for_user, which calls  *)
(* process_history_updates, which handles the listed changes one by one.    *)
(* poll.failures counts the per-message results of the running batch that  *)
(* came back with success = False.                                          *)
(* check_emails_for_user that scans the whole change log when no cursor is stored *)
PollStart_scan_all(pf) ==
    /\ poll.pc = "idle"
    /\ auto_reply_configs.enabled
    /\ IF get_active_limit(gmail_rate_limits, now) # NoLimit
       THEN UNCHANGED <<poll, last_history_ids>>
       ELSE IF pf = "credentials_error"
       THEN UNCHANGED <<poll, last_history_ids>>
       ELSE IF last_history_ids = NoCursor
       THEN /\ last_history_ids' = 0
            /\ poll' = [IdlePoll EXCEPT
                            !.pc = "scan",
                            !.todo = history,
                            !.new_history_id = Len(history)]
       ELSE IF pf = "history_error"
       THEN UNCHANGED <<poll, last_history_ids>>
       ELSE /\ poll' = [IdlePoll EXCEPT
                            !.pc = "scan",
                            !.todo = SubSeq(history, last_history_ids + 1, Len(history)),
                            !.new_history_id = Len(history)]
            /\ UNCHANGED last_history_ids
    /\ UNCHANGED <<now, mailbox, labels, history, gmail_rate_limits, processed_message_ids,
                   monitored_threads, vector_index, auto_reply_configs, pending,
                   result, workers, sessions>>

(* Lines 84-118 and process_history_updates up to the history listing. *)
PollStart(pf) ==
    /\ poll.pc = "idle"
    /\ auto_reply_configs.enabled
    /\ IF get_active_limit(gmail_rate_limits, now) # NoLimit
       THEN UNCHANGED <<poll, last_history_ids>>
       ELSE IF pf = "credentials_error"
       THEN UNCHANGED <<poll, last_history_ids>>
       ELSE IF last_history_ids = NoCursor
       THEN /\ last_history_ids' = Len(history)
            /\ UNCHANGED poll
       ELSE IF pf = "history_error"
       THEN UNCHANGED <<poll, last_history_ids>>
       ELSE /\ poll' = [IdlePoll EXCEPT
                            !.pc = "scan",
                            !.todo = SubSeq(history, last_history_ids + 1, Len(history)),
                            !.new_history_id = Len(history)]
            /\ UNCHANGED last_history_ids
    /\ UNCHANGED <<now, mailbox, labels, history, gmail_rate_limits, processed_message_ids,
                   monitored_threads, vector_index, auto_reply_configs, pending,
                   result, workers, sessions>>

(* One round of the loop over history_changes (lines 1010-1036). *)
PollStep(f) ==
    /\ poll.pc = "scan"
    /\ poll.todo # <<>>
    /\ LET message_id == Head(poll.todo) IN
       IF {"INBOX", "UNREAD"} \subseteq labels[message_id]
       THEN LET r == process_single_email(World, message_id, f) IN
            /\ Commit(r.w)
            /\ IF r.kind = "tuple"
               THEN \* result.get on a tuple raises; caught at line 1066
                    poll' = IdlePoll
               ELSE poll' = [poll EXCEPT
                           !.todo = Tail(@),
                           !.replied_count =
                               IF r.success /\ r.message = "Auto-reply sent successfully"
                               THEN @ + 1 ELSE @,
                           !.failures = IF r.success THEN @ ELSE @ + 1]
       ELSE /\ f = Happy
            /\ poll' = [poll EXCEPT !.todo = Tail(@)]
            /\ UNCHANGED <<mailbox, gmail_rate_limits, processed_message_ids,
                           monitored_threads, vector_index>>
    /\ UNCHANGED <<now, labels, history, last_history_ids, auto_reply_configs,
                   pending, result, workers, sessions>>

(* Lines 1038-1064, then check_emails_for_user lines 120-128. *)
PollFinish ==
    /\ poll.pc = "scan"
    /\ poll.todo = <<>>
    /\ auto_reply_configs' =
           [auto_reply_configs EXCEPT !.push_notification_history_id = poll.new_history_id]
    /\ last_history_ids' = poll.new_history_id
    /\ poll' = IdlePoll
    /\ UNCHANGED <<now, mailbox, labels, history, gmail_rate_limits, processed_message_ids,
                   monitored_threads, vector_index, pending, result, workers, sessions>>

(* ---------------- routes/auto_reply.reset_rate_limits ---------------- *)
reset_rate_limits ==
    /\ gmail_rate_limits' = Deactivate(gmail_rate_limits, ActiveIdx(gmail_rate_limits))
    /\ result' = Result("reset_rate_limits", TRUE, "Reset", "none", -1, 0, SendOk)
    /\ UNCHANGED <<now, mailbox, labels, history, processed_message_ids,
                   monitored_threads, vector_index, last_history_ids,
                   auto_reply_configs, pending, poll, workers, sessions>>

(* Faults that leave the send-rate limit out: the gateway accepts the send  *)
(* or refuses it with an error that is no rate-limit error.                 *)
DeliveryFaults ==
    {f \in Faults : f.send.ok \/ (~f.send.rle /\ ~f.send.has429)}

(* Both delivery paths at work on unread messages: the webhook with its     *)
(* continuation and the poller.                                             *)
Next ==
    \/ \E m \in MsgIds : Arrive(m, {"INBOX", "UNREAD"})
    \/ Tick
    \/ \E m \in MsgIds : gmail_webhook(GoodRequest([kind |-> "emailId", id |-> m]))
    \/ \E f \in DeliveryFaults : _process_webhook_message(f)
    \/ \E pf \in {"ok", "credentials_error", "history_error"} : PollStart(pf)
    \/ \E f \in DeliveryFaults : PollStep(f)
    \/ PollFinish

Spec == Init /\ [][Next]_vars

(* The poller alone; messages arrive unread or already read. *)
NextPoll ==
    \/ \E m \in MsgIds, l \in {{"INBOX", "UNREAD"}, {"INBOX"}} : Arrive(m, l)
    \/ Tick
    \/ \E pf \in {"ok", "credentials_error", "history_error"} : PollStart(pf)
    \/ \E f \in DeliveryFaults : PollStep(f)
    \/ PollFinish

SpecPoll == Init /\ [][NextPoll]_vars

(* ---------------- a reply attempt ---------------- *)
(* generate_and_send_reply called for a thread that holds a message, as its *)
(* callers do after classifying the thread.                                 *)
ReplyAttempt(thread_id, classification, reply, out) ==
    /\ mailbox[thread_id] # <<>>
    /\ LET g == generate_and_send_reply(World, thread_id, classification, reply, out) IN
       /\ Commit(g.w)
       /\ result' = Result("generate_and_send_reply", g.reply_sent,
                           IF g.reply_sent THEN "sent" ELSE "not sent",
                           g.status, g.retry_after, g.w.send_calls,
                           IF g.w.send_calls > 0 THEN out ELSE SendOk)
    /\ UNCHANGED <<now, labels, history, last_history_ids, auto_reply_configs,
                   pending, poll, workers, sessions>>

ReplyFaults == {f \in Faults : f.get = "ok" /\ f.classification # "<fail>"}

(* The rate limit governor: reply attempts in one thread, the clock and the *)
(* reset endpoint.  The limit is kept per user, not per thread.            *)
NextRate ==
    \/ Arrive(1, {"INBOX", "UNREAD"})
    \/ Tick
    \/ \E t \in ThreadIds, f \in ReplyFaults :
          ReplyAttempt(t, f.classification, f.reply, f.send)
    \/ reset_rate_limits

SpecRate == Init /\ [][NextRate]_vars

(* ---------------- AutoReplyManager.check_and_process_new_emails ---------------- *)
Reverse(s) == [i \in 1..Len(s) |-> s[Len(s) + 1 - i]]

(* messages.list(q="is:unread newer_than:1h"): the unread messages of the   *)
(* last hour, newest first.  Every message opens a thread of its own, so    *)
(* the handler's processed_threads set never skips an entry.                *)
ListUnread ==
    LET Hit(m) == /\ "UNREAD" \in labels[m]
                  /\ mailbox[ThreadOf(m)][1].date > now - NEW_EMAIL_THRESHOLD
    IN Reverse(SelectSeq(history, Hit))

(* The body of the loop for one listed thread (lines 127-186). *)
CheckThread(w, thread_id, f) ==
    LET messages == w.mailbox[thread_id]
        Same == [w |-> w, replied |-> FALSE, rate_limit_info |-> FALSE]
    IN
    IF f.get = "thread_error" THEN Same
    ELSE IF IsRecent(messages) /\ ~_user_already_replied(messages)
    THEN IF f.classification = "<fail>" THEN Same
         ELSE LET g == generate_and_send_reply(w, thread_id, f.classification,
                                               f.reply, f.send)
              IN [w |-> get_thread_store_embedding(g.w, thread_id),
                  replied |-> g.reply_sent,
                  rate_limit_info |-> ~g.reply_sent /\ g.status = "rate_limited"]
    ELSE Same

(* The loop over the listed messages; it stops at a rate-limited reply. *)
RECURSIVE CheckLoop(_, _, _)
CheckLoop(w, todo, fs) ==
    IF todo = <<>> THEN [w |-> w, rate_limit_info |-> FALSE]
    ELSE LET r == CheckThread(w, ThreadOf(Head(todo)), fs[ThreadOf(Head(todo))]) IN
         IF r.rate_limit_info THEN [w |-> r.w, rate_limit_info |-> TRUE]
         ELSE CheckLoop(r.w, Tail(todo), fs)

(* Faults a thread of the listing can meet: the read of the thread fails,   *)
(* the classifier fails or says irrelevant, no reply text, the send fails.  *)
CheckFaults ==
    {f \in Faults : /\ f.get \in {"ok", "thread_error"}
                    /\ f.send.ok \/ ~f.send.rle \/ f.send.until = "frac"}

(* One listed thread meets the fault f, the others none. *)
OneFault(k, f) == [t \in ThreadIds |-> IF t = k THEN f ELSE Happy]

check_and_process_new_emails(pf, fs) ==
    /\ pf = "ok" \/ fs = OneFault(1, Happy)
    /\ IF get_active_limit(gmail_rate_limits, now) # NoLimit
       THEN /\ result' = Result("check_and_process_new_emails", FALSE,
                                "Gmail sending rate limit in effect", "rate_limited",
                                get_active_limit(gmail_rate_limits, now).retry_after,
                                0, SendOk)
            /\ UNCHANGED <<mailbox, gmail_rate_limits, processed_message_ids,
                           monitored_threads, vector_index>>
       ELSE IF pf # "ok"
       THEN /\ result' = Result("check_and_process_new_emails", FALSE,
                                "HTTPException 500", "none", -1, 0, SendOk)
            /\ UNCHANGED <<mailbox, gmail_rate_limits, processed_message_ids,
                           monitored_threads, vector_index>>
       ELSE LET r == CheckLoop(World, ListUnread, fs) IN
            /\ Commit(r.w)
            /\ result' = Result("check_and_process_new_emails", TRUE, "Processed",
                                IF r.rate_limit_info THEN "rate_limited" ELSE "none",
                                -1, 0, SendOk)
    /\ UNCHANGED <<now, labels, history, last_history_ids, auto_reply_configs,
                   pending, poll, workers, sessions>>

(* ---------------- AutoReplyManager.process_gmail_push_notification ---------------- *)
PushNotifications ==
    {[kind |-> k, id |-> 1] : k \in {"no_message", "no_message_id", "no_history_id"}}
    \cup {[kind |-> "ok", id |-> m] : m \in MsgIds}

(* Faults of the push path; get = "rate_limit_error" is a read the provider *)
(* refuses with "rate limit exceeded ... until <timestamp>".                *)
PushFaults ==
    {f \in Faults : f.send.ok \/ ~f.send.rle \/ f.send.until = "frac"}
    \cup {[Happy EXCEPT !.get = "rate_limit_error"]}

(* raised: "none", "rate_limit" (the text names a limit and its end) or     *)
(* "error" (any other exception).                                           *)
PushRet(w, raised, success, message) ==
    [w |-> w, raised |-> raised, success |-> success, message |-> message]

process_gmail_push_notification(w, notification, f) ==
    LET thread_id == ThreadOf(notification.id)
        messages == w.mailbox[thread_id]
    IN
    IF notification.kind = "no_message"
    THEN PushRet(w, "none", FALSE, "No message data in notification")
    ELSE IF notification.kind = "no_message_id"
    THEN PushRet(w, "none", FALSE, "No message ID in notification")
    ELSE IF notification.kind = "no_history_id"
    THEN PushRet(w, "none", FALSE, "No history ID in notification")
    ELSE IF get_active_limit(w.gmail_rate_limits, now) # NoLimit
    THEN PushRet(w, "none", FALSE, "Gmail sending rate limit in effect")
    ELSE IF f.get = "rate_limit_error"
    THEN PushRet(w, "rate_limit", FALSE, "")
    ELSE IF f.get = "error" \/ messages = <<>>
    THEN PushRet(w, "error", FALSE, "")
    ELSE IF f.get = "no_thread"
    THEN PushRet(w, "none", FALSE, "No thread ID found for message")
    ELSE IF f.get = "thread_error"
    THEN PushRet(w, "error", FALSE, "")
    ELSE IF IsRecent(messages) /\ ~_user_already_replied(messages)
    THEN IF f.classification = "<fail>"
         THEN PushRet(w, "error", FALSE, "")
         ELSE LET g == generate_and_send_reply(w, thread_id, f.classification,
                                               f.reply, f.send)
              IN
              IF g.reply_sent
              THEN PushRet(g.w, "none", TRUE, "Auto-reply sent successfully")
              ELSE IF g.status = "rate_limited"
              THEN PushRet(g.w, "none", FALSE, "Gmail sending rate limit reached")
              ELSE PushRet(g.w, "none", FALSE, "Failed to send auto-reply")
    ELSE PushRet(w, "none", TRUE, "Email does not need an auto-reply")

(* routes/auto_reply.receive_gmail_push_notification; ts is the end of the  *)
(* limit a refused read names.                                              *)
receive_gmail_push_notification(notification, f, ts) ==
    /\ f.get = "rate_limit_error" \/ ts = 1
    /\ notification.kind = "ok" \/ f = Happy
    /\ LET r == process_gmail_push_notification(World, notification, f) IN
       IF r.raised = "none"
       THEN /\ Commit(r.w)
            /\ result' = Result("receive_gmail_push_notification", TRUE,
                                "Gmail push notification processed successfully",
                                "none", -1, 0, SendOk)
       ELSE IF r.raised = "rate_limit"
       THEN /\ Commit([r.w EXCEPT !.gmail_rate_limits = add_limit(@, ts)])
            /\ result' = Result("receive_gmail_push_notification", FALSE,
                                "Gmail API rate limit exceeded", "none", ts, 0, SendOk)
       ELSE /\ Commit(r.w)
            /\ result' = Result("receive_gmail_push_notification", FALSE,
                                "HTTPException 500", "none", -1, 0, SendOk)
    /\ UNCHANGED <<now, labels, history, last_history_ids, auto_reply_configs,
                   pending, poll, workers, sessions>>

(* The two handlers that reply without the idempotency cache. *)
NextReplies ==
    \/ \E m \in MsgIds : Arrive(m, {"INBOX", "UNREAD"})
    \/ Tick
    \/ \E pf \in {"ok", "list_error"}, f \in CheckFaults, k \in ThreadIds :
          check_and_process_new_emails(pf, OneFault(k, f))
    \/ \E n \in PushNotifications, f \in PushFaults, ts \in Stamps :
          receive_gmail_push_notification(n, f, ts)

SpecReplies == Init /\ [][NextReplies]_vars

(* ---------------- the webhook ---------------- *)
NextWebhook ==
    \/ \E m \in MsgIds : Arrive(m, {"INBOX", "UNREAD"})
    \/ Tick
    \/ UpdateConfig
    \/ \E req \in WebhookRequests : gmail_webhook(req)
    \/ \E f \in DeliveryFaults : _process_webhook_message(f)

SpecWebhook == Init /\ [][NextWebhook]_vars

(* ---------------- process_single_email, interleaved ---------------- *)
(* The webhook continuation runs on the server's event loop, the poller in *)
(* a thread of its own with its own loop: between the two segments of the  *)
(* handler (it awaits the classifier and the reply generation) the other   *)
(* one may run.  workers holds the running calls: who runs it, where it    *)
(* is, the message and what it meets.                                      *)
Without(seq, i) == [k \in 1..(Len(seq) - 1) |-> IF k < i THEN seq[k] ELSE seq[k + 1]]

WorkerBegin(who, m) ==
    /\ Len(workers) < MaxWorkers
    /\ \A i \in 1..Len(workers) : workers[i].who # who
    /\ mailbox[ThreadOf(m)] # <<>>
    /\ workers' = Append(workers, [who |-> who, pc |-> "check", email_id |-> m])
    /\ UNCHANGED <<now, mailbox, labels, history, gmail_rate_limits, processed_message_ids,
                   monitored_threads, vector_index, last_history_ids,
                   auto_reply_configs, pending, poll, result, sessions>>

WorkerCheck(i, f) ==
    /\ i \in 1..Len(workers)
    /\ workers[i].pc = "check"
    /\ f.reply /\ f.send.ok
    /\ LET c == process_single_email_check(World, workers[i].email_id, f) IN
       /\ Commit(c.w)
       /\ workers' = IF c.kind = "continue"
                     THEN [workers EXCEPT ![i].pc = "reply"]
                     ELSE Without(workers, i)
    /\ UNCHANGED <<now, labels, history, last_history_ids, auto_reply_configs,
                   pending, poll, result, sessions>>

WorkerReply(i, f) ==
    /\ i \in 1..Len(workers)
    /\ workers[i].pc = "reply"
    /\ f.get = "ok" /\ f.classification = "Questions"
    /\ LET r == process_single_email_reply(World, workers[i].email_id, f) IN
       /\ Commit(r.w)
       /\ workers' = Without(workers, i)
    /\ UNCHANGED <<now, labels, history, last_history_ids, auto_reply_configs,
                   pending, poll, result, sessions>>

NextRace ==
    \/ \E m \in MsgIds : Arrive(m, {"INBOX", "UNREAD"})
    \/ Tick
    \/ \E who \in {"webhook", "poller"}, m \in MsgIds : WorkerBegin(who, m)
    \/ \E i \in 1..MaxWorkers, f \in DeliveryFaults : WorkerCheck(i, f)
    \/ \E i \in 1..MaxWorkers, f \in DeliveryFaults : WorkerReply(i, f)

SpecRace == Init /\ [][NextRace]_vars

(* ---------------- add_limit, interleaved ---------------- *)
(* Every caller of add_limit has a database session of its own.  The call  *)
(* reads the active rows (line 50-54), then marks the rows it read, adds   *)
(* the new row and commits (lines 57-69); nothing locks the rows between   *)
(* the two.  sessions holds the calls that have read and not committed.    *)
add_limit_query(retry_after) ==
    /\ Len(sessions) < MaxSessions
    /\ sessions' = Append(sessions, [seen |-> ActiveIdx(gmail_rate_limits),
                                     retry_after |-> retry_after])
    /\ UNCHANGED <<now, mailbox, labels, history, gmail_rate_limits, processed_message_ids,
                   monitored_threads, vector_index, last_history_ids,
                   auto_reply_configs, pending, poll, result, workers>>

add_limit_commit(i) ==
    /\ i \in 1..Len(sessions)
    /\ Len(gmail_rate_limits) < MaxLimits
    /\ gmail_rate_limits' =
           Append(Deactivate(gmail_rate_limits, sessions[i].seen),
                  [retry_after |-> sessions[i].retry_after, is_active |-> TRUE])
    /\ sessions' = Without(sessions, i)
    /\ UNCHANGED <<now, mailbox, labels, history, processed_message_ids,
                   monitored_threads, vector_index, last_history_ids,
                   auto_reply_configs, pending, poll, result, workers>>

NextSessions ==
    \/ Tick
    \/ \E ts \in Stamps : add_limit_query(ts)
    \/ \E i \in 1..MaxSessions : add_limit_commit(i)
    \/ reset_rate_limits

SpecSessions == Init /\ [][NextSessions]_vars

(* ---------------- properties of the delivery paths ---------------- *)
(* A poll round or a webhook continuation is about to handle message m.    *)
PollDelivers(m) ==
    /\ poll.pc = "scan" /\ poll.todo # <<>> /\ Head(poll.todo) = m
    /\ poll' # poll

WebhookDelivers(m) ==
    /\ pending # <<>> /\ Head(pending).kind = "emailId" /\ Head(pending).id = m
    /\ pending' = Tail(pending)

(* C1: a message handed to process_single_email again, by the webhook or   *)
(* by the poller, after its reply was sent is found in                     *)
(* processed_message_ids and nothing is sent for it; every thread holds at *)
(* most one automated reply, and exactly one once its message is marked.   *)
C1_ExactlyOneReply ==
    /\ [](\A m \in MsgIds :
            /\ RepliesIn(mailbox[ThreadOf(m)]) <= 1
            /\ m \in processed_message_ids => RepliesIn(mailbox[ThreadOf(m)]) = 1)
    /\ [][\A m \in processed_message_ids :
            (PollDelivers(m) \/ WebhookDelivers(m)) => mailbox' = mailbox]_vars

(* The poller has handled message 1 in the running scan without replying,  *)
(* the one reply of the thread having been sent before.                    *)
C1_Witness ==
    /\ poll.pc = "scan"
    /\ last_history_ids = 0
    /\ history # <<>> /\ history[1] = 1
    /\ Len(poll.todo) < poll.new_history_id
    /\ poll.replied_count = 0
    /\ 1 \in processed_message_ids
    /\ RepliesIn(mailbox[ThreadOf(1)]) = 1
    /\ IsRecent(mailbox[ThreadOf(1)])

(* C8: a batch in which the handling of a change failed leaves the cursor  *)
(* where it was.                                                           *)
C8_CursorKeptOnFailure ==
    [][(poll.pc = "scan" /\ poll.failures > 0 /\ poll'.pc = "idle")
          => last_history_ids' = last_history_ids]_vars

(* C9: the check of a user without cursor stores the provider's current    *)
(* history position and does nothing else: no scan is started, nothing is  *)
(* processed, no reply is sent; a scan always has a stored cursor.         *)
C9_FirstCheckInitialises ==
    /\ [](poll.pc = "scan" => last_history_ids # NoCursor)
    /\ [][(last_history_ids = NoCursor /\ last_history_ids' # NoCursor)
            => /\ last_history_ids' = Len(history)
               /\ poll' = IdlePoll
               /\ mailbox' = mailbox
               /\ processed_message_ids' = processed_message_ids
               /\ gmail_rate_limits' = gmail_rate_limits
               /\ vector_index' = vector_index]_vars

(* The cursor was initialised past a fresh, unread, unanswered message.    *)
C9_Witness ==
    /\ last_history_ids = Len(history)
    /\ Len(history) > 0
    /\ auto_reply_configs.push_notification_history_id = NoCursor
    /\ poll = IdlePoll
    /\ \A m \in MsgIds : RepliesIn(mailbox[ThreadOf(m)]) = 0
    /\ \E m \in MsgIds :
          /\ mailbox[ThreadOf(m)] # <<>>
          /\ IsRecent(mailbox[ThreadOf(m)])
          /\ labels[m] = {"INBOX", "UNREAD"}

(* ---------------- properties of the rate limit governor ---------------- *)
NoNewReply == \A t \in ThreadIds : RepliesIn(mailbox'[t]) = RepliesIn(mailbox[t])

(* The step is a reply attempt; result' is what it returned. *)
AttemptReturns ==
    \E t \in ThreadIds, f \in ReplyFaults :
        ReplyAttempt(t, f.classification, f.reply, f.send)

(* C4 as stated: once a record was active with retry_after in the future,  *)
(* no reply is sent before retry_after, whatever happened in between.      *)
(* Every row of the table was inserted active.                             *)
C4_NoSendBeforeRetryAfter ==
    [][(\E i \in 1..Len(gmail_rate_limits) : gmail_rate_limits[i].retry_after > now)
          => NoNewReply]_vars

(* C4 amended: while a record is active with retry_after in the future, no *)
(* reply is sent and every reply attempt returns rate_limited without a    *)
(* call of the gateway's send.                                             *)
C4_GatedWhileActive ==
    [][get_active_limit(gmail_rate_limits, now) # NoLimit
          => /\ NoNewReply
             /\ AttemptReturns =>
                   /\ result'.status = "rate_limited"
                   /\ result'.send_calls = 0
                   /\ ~result'.success]_vars

(* A reply attempt was turned away by a limit that is still in effect. *)
C4_Witness ==
    /\ result.op = "generate_and_send_reply"
    /\ result.status = "rate_limited"
    /\ result.send_calls = 0
    /\ get_active_limit(gmail_rate_limits, now) # NoLimit
    /\ result.retry_after = get_active_limit(gmail_rate_limits, now).retry_after

OneActiveAt(table, ts) ==
    /\ Cardinality(ActiveIdx(table)) = 1
    /\ \A i \in ActiveIdx(table) : table[i].retry_after = ts

(* C6 as stated: a refused send whose rate-limit error carries a timestamp *)
(* after "until " leaves exactly one active record, with that timestamp,   *)
(* and the attempt returns rate_limited.                                   *)
C6_UntilStampRecorded ==
    [][(/\ AttemptReturns
        /\ result'.send_calls = 1
        /\ result'.gateway.rle
        /\ result'.gateway.until \in {"frac", "nofrac"})
          => /\ result'.status = "rate_limited"
             /\ OneActiveAt(gmail_rate_limits', result'.gateway.ts)]_vars

(* C7: a refused send whose rate-limit error carries no timestamp still    *)
(* leaves a limit in effect.                                               *)
C7_LimitRecordedWithoutStamp ==
    [][(/\ AttemptReturns
        /\ result'.send_calls = 1
        /\ result'.gateway.rle
        /\ result'.gateway.until = "none"
        /\ result'.gateway.retry = "none")
          => get_active_limit(gmail_rate_limits', now') # NoLimit]_vars

(* ---------------- properties of the handlers without the cache ---------------- *)
(* C3: every thread holds one incoming message; it gets at most one        *)
(* automated reply, however often the two handlers are invoked.            *)
C3_AtMostOneReply == \A t \in ThreadIds : RepliesIn(mailbox[t]) <= 1

(* ---------------- properties of the interleaved handlers ---------------- *)
(* C2: the webhook continuation and the poller handling the same message   *)
(* at the same time send at most one reply for it.                         *)
C2_AtMostOneReplyConcurrent ==
    \A m \in MsgIds : RepliesIn(mailbox[ThreadOf(m)]) <= 1

(* C5: at most one rate-limit record of the user is active, also when      *)
(* add_limit runs in two sessions at once.                                 *)
C5_AtMostOneActive == Cardinality(ActiveIdx(gmail_rate_limits)) <= 1

(* ---------------- properties of the webhook ---------------- *)
(* C10: whatever the request, gmail_webhook answers with success = true    *)
(* and lets no exception out.                                              *)
C10_AlwaysAcknowledged ==
    result.op = "gmail_webhook" => result.success /\ result.status # "raised"

(* A request whose handling raised was acknowledged. *)
C10_Witness ==
    /\ result.op = "gmail_webhook"
    /\ result.message = "Webhook received, processing internally"
    /\ result.success

(* ---------------- properties of the push-notification endpoint ---------------- *)
(* C11: whatever fails while a push notification is processed, the caller  *)
(* of receive_gmail_push_notification is not told of a failure.            *)
C11_PushFailureNotSurfaced ==
    result.op = "receive_gmail_push_notification" => result.success

(* ---------------- the vector store and thread monitoring ---------------- *)
(* What a handler of this part returned, with the thread it worked on, the *)
(* number of sends and of writes to the index it made.                      *)
StoreResult(op, thread_id, success, message, send_calls, upserts) ==
    [op |-> op, thread_id |-> thread_id, success |-> success, message |-> message,
     send_calls |-> send_calls, upserts |-> upserts]

(* A further message of the correspondent in an existing thread. *)
FollowUp(t) ==
    /\ mailbox[t] # <<>>
    /\ Len(mailbox[t]) < MaxThreadLen
    /\ mailbox' = [mailbox EXCEPT ![t] = Append(@, [sender |-> "ext", date |-> now])]
    /\ UNCHANGED <<now, labels, history, gmail_rate_limits, processed_message_ids,
                   monitored_threads, vector_index, last_history_ids,
                   auto_reply_configs, pending, poll, result, workers, sessions>>

(* get_thread_category: the name of a label of the thread, "" when it has  *)
(* none.                                                                    *)
LabelNames == {"", "Questions", "Irrelevant", "irrelevant", "IRRELEVANT"}

(* email_service.index_thread; the body it returns is kept with the        *)
(* category it passed to upsert_thread as message.                          *)
index_thread(thread_id, category, idx) ==
    /\ mailbox[thread_id] # <<>>
    /\ LET u == upsert_thread(World, thread_id, category, idx) IN
       /\ Commit(u.w)
       /\ result' = StoreResult("index_thread", thread_id, u.ok, category,
                                0, u.w.upserts)
    /\ UNCHANGED <<now, labels, history, last_history_ids, auto_reply_configs,
                   pending, poll, workers, sessions>>

(* One message handled by process_single_email. *)
StoreFaults ==
    {Happy, [Happy EXCEPT !.reply = FALSE], [Happy EXCEPT !.get = "thread_error"],
     [Happy EXCEPT !.send = ErrText(FALSE, FALSE, "none", "none", 0)]}
    \cup {[Happy EXCEPT !.classification = c] : c \in {"Irrelevant", "irrelevant"}}

ProcessSingleEmail(email_id, f) ==
    /\ mailbox[ThreadOf(email_id)] # <<>>
    /\ LET r == process_single_email(World, email_id, f) IN
       /\ Commit(r.w)
       /\ result' = StoreResult("process_single_email", ThreadOf(email_id),
                                r.success, r.message, r.w.send_calls, r.w.upserts)
    /\ UNCHANGED <<now, labels, history, last_history_ids, auto_reply_configs,
                   pending, poll, workers, sessions>>

MonitorFaults == {"ok", "get_error", "fetch_error", "update_error"}

(* One notification handled by ThreadMonitoringService. *)
MonitorNotification(email_id, mf) ==
    /\ mailbox[ThreadOf(email_id)] # <<>>
    /\ LET r == thread_monitoring_notification(World, email_id, mf) IN
       /\ Commit(r.w)
       /\ result' = StoreResult("thread_monitoring_notification", ThreadOf(email_id),
                                r.success, r.message, 0, r.w.upserts)
    /\ UNCHANGED <<now, labels, history, last_history_ids, auto_reply_configs,
                   pending, poll, workers, sessions>>

(* ThreadMonitoringService.check_for_thread_updates: the monitored threads *)
(* one after the other; bad are the threads whose get_thread raises.        *)
CheckUpdate(w, thread_id, bad) ==
    LET thread_in_vector == w.vector_index[thread_id] IN
    IF thread_id \in bad THEN w
    ELSE IF thread_in_vector # NoRecord
            /\ Len(w.mailbox[thread_id]) > thread_in_vector.message_count
    THEN get_thread_store_embedding(w, thread_id)
    ELSE w

RECURSIVE CheckUpdates(_, _, _)
CheckUpdates(w, todo, bad) ==
    IF todo = {} THEN w
    ELSE LET thread_id == CHOOSE t \in todo : \A u \in todo : t <= u IN
         CheckUpdates(CheckUpdate(w, thread_id, bad), todo \ {thread_id}, bad)

check_for_thread_updates(bad) ==
    /\ LET w == CheckUpdates(World, monitored_threads, bad) IN
       /\ Commit(w)
       /\ result' = StoreResult("check_for_thread_updates", 0, TRUE,
                                IF monitored_threads = {}
                                THEN "No monitored threads found for this user"
                                ELSE "Checked", 0, w.upserts)
    /\ UNCHANGED <<now, labels, history, last_history_ids, auto_reply_configs,
                   pending, poll, workers, sessions>>

(* The correspondence goes on in thread 1; the other threads are indexed.   *)
NextStore ==
    \/ \E m \in MsgIds : Arrive(m, {"INBOX", "UNREAD"})
    \/ FollowUp(1)
    \/ \E t \in ThreadIds, c \in LabelNames, idx \in {"ok", "error"} :
          index_thread(t, c, idx)
    \/ \E f \in StoreFaults : ProcessSingleEmail(1, f)
    \/ \E mf \in MonitorFaults : MonitorNotification(1, mf)
    \/ \E bad \in {{}} \cup {{t} : t \in ThreadIds} : check_for_thread_updates(bad)

SpecStore == Init /\ [][NextStore]_vars

(* C12: handling a message whose thread is classified irrelevant leaves a   *)
(* record of the thread in the vector index, and sends nothing.             *)
C12_IrrelevantStoredNotAnswered ==
    (result.op = "process_single_email" /\ result.message = "skipped")
        => /\ vector_index[result.thread_id] # NoRecord
           /\ result.send_calls = 0

(* C13: upsert_thread stores nothing for a thread whose category is the     *)
(* irrelevant sentinel in any letter case: the index is left as it was, a   *)
(* record already held for the thread included, and the call reports        *)
(* success.                                                                 *)
C13_IrrelevantNotStored ==
    [][(result'.op = "index_thread" /\ lower(result'.message) = "irrelevant")
           => (vector_index' = vector_index /\ result'.success)]_vars

(* An irrelevant category in capitals was offered for a thread that has a   *)
(* record, and the record is still there.                                   *)
C13_Witness ==
    /\ result.op = "index_thread"
    /\ result.message = "IRRELEVANT"
    /\ result.success
    /\ vector_index[result.thread_id] # NoRecord

(* ---------------- the context search of generate_and_send_reply ---------------- *)
(* filter_category = None *)
None == "<None>"

Take(s, n) == SubSeq(s, 1, IF n < Len(s) THEN n ELSE Len(s))

(* The orders in which a query embedding can rank the threads by similarity. *)
Rankings ==
    {r \in [1..MaxMsgs -> ThreadIds] : \A i, j \in 1..MaxMsgs : r[i] = r[j] => i = j}

(* VectorDBService.search_threads: the records of the user that pass the   *)
(* metadata filter (equality of the stored category with the filter text), *)
(* most similar first, top_k * 3 of them fetched and top_k returned; an     *)
(* error of the query (q = "error") gives the empty list.  The result is    *)
(* kept as the list of thread ids.                                          *)
search_threads(index, query_embedding, top_k, filter_category, q) ==
    LET Passes(t) == /\ index[t] # NoRecord
                     /\ filter_category # None => index[t].category = filter_category
        matches == Take(SelectSeq(query_embedding, Passes), top_k * 3)
    IN IF q = "error" THEN <<>> ELSE Take(matches, top_k)

(* lines 267-278 *)
complementary_category(classification) ==
    IF lower(classification) = "job posting" THEN "candidate"
    ELSE IF lower(classification) = "candidate" THEN "job posting"
    ELSE None

(* lines 280-304 without the second search *)
similar_threads_no_fallback(index, classification, query_embedding, q1, q2) ==
    search_threads(index, query_embedding, MAX_CONTEXT_THREADS,
                   complementary_category(classification), q1)

(* lines 280-304: the threads the context is formatted from; q1 and q2 are *)
(* the outcomes of the first and of the second query.                       *)
similar_threads(index, classification, query_embedding, q1, q2) ==
    LET first == search_threads(index, query_embedding, MAX_CONTEXT_THREADS,
                                complementary_category(classification), q1)
    IN IF Len(first) = 0 /\ complementary_category(classification) # None
       THEN search_threads(index, query_embedding, MAX_CONTEXT_THREADS, None, q2)
       ELSE first

SearchResult(thread_id, success, classification, query_embedding, q1, q2, searched, context) ==
    [op |-> "generate_and_send_reply", thread_id |-> thread_id, success |-> success,
     classification |-> classification, query_embedding |-> query_embedding,
     q1 |-> q1, q2 |-> q2, searched |-> searched, context |-> context]

(* generate_and_send_reply with the search it makes on the way: the search *)
(* comes after the check of the active limit and before the reply.          *)
GenerateReply(thread_id, classification, reply, out, query_embedding, q1, q2) ==
    /\ mailbox[thread_id] # <<>>
    /\ LET g == generate_and_send_reply(World, thread_id, classification, reply, out)
           searched == get_active_limit(gmail_rate_limits, now) = NoLimit
       IN
       /\ Commit(g.w)
       /\ result' = SearchResult(thread_id, g.reply_sent, classification,
                                 query_embedding, q1, q2, searched,
                                 IF searched
                                 THEN similar_threads(vector_index, classification,
                                                      query_embedding, q1, q2)
                                 ELSE <<>>)
    /\ UNCHANGED <<now, labels, history, last_history_ids, auto_reply_configs,
                   pending, poll, workers, sessions>>

(* The attempts that leave the mailbox as it is: no reply text is          *)
(* produced, or the gateway refuses the send.                               *)
UnsentReplies ==
    {[Happy EXCEPT !.reply = FALSE],
     [Happy EXCEPT !.send = ErrText(FALSE, FALSE, "none", "none", 0)]}

(* Label names a thread is indexed with: the names the classifier writes,  *)
(* a label of the user spelt in small letters, no label.                    *)
SearchLabels == {"", "Questions", "Job Posting", "Candidate", "candidate"}

Classifications == {"Job Posting", "Candidate", "Questions"}

QueryOutcomes == {<<"ok", "ok">>, <<"error", "ok">>, <<"ok", "error">>}

(* Threads are indexed with their labels; replies are attempted in thread 1. *)
NextSearch ==
    \/ \E m \in MsgIds : Arrive(m, {"INBOX", "UNREAD"})
    \/ \E t \in ThreadIds, c \in SearchLabels : index_thread(t, c, "ok")
    \/ \E c \in Classifications, f \in UnsentReplies, e \in Rankings, q \in QueryOutcomes :
          GenerateReply(1, c, f.reply, f.send, e, q[1], q[2])

SpecSearch == Init /\ [][NextSearch]_vars

(* C14: when the search restricted to the complementary category returns   *)
(* no thread, the context threads of generate_and_send_reply are exactly    *)
(* what the unfiltered search returns for the same embedding and top_k.     *)
C14_FallbackIsUnfilteredSearch ==
    (/\ result.op = "generate_and_send_reply"
     /\ result.searched
     /\ complementary_category(result.classification) # None
     /\ search_threads(vector_index, result.query_embedding, MAX_CONTEXT_THREADS,
                       complementary_category(result.classification), result.q1) = <<>>)
        => result.context =
               search_threads(vector_index, result.query_embedding,
                              MAX_CONTEXT_THREADS, None, result.q2)

(* The filtered search found nothing and the fallback found a thread. *)
C14_Witness ==
    /\ result.op = "generate_and_send_reply"
    /\ result.searched
    /\ complementary_category(result.classification) # None
    /\ result.q1 = "ok"
    /\ search_threads(vector_index, result.query_embedding, MAX_CONTEXT_THREADS,
                      complementary_category(result.classification), result.q1) = <<>>
    /\ Len(result.context) >= 2

(* The category the classifier writes for the counterpart of a thread: the *)
(* label names "Candidate" and "Job Posting".                               *)
CounterpartLabel(classification) ==
    IF lower(classification) = "job posting" THEN "Candidate" ELSE "Job Posting"

(* C15: for a Job Posting thread, when the index holds a thread stored     *)
(* with the category the classifier writes for candidates, the context      *)
(* holds candidate threads only; likewise for a Candidate thread and job    *)
(* postings.                                                                *)
C15_ContextOnlyCounterparts ==
    (/\ result.op = "generate_and_send_reply"
     /\ result.searched
     /\ result.q1 = "ok"
     /\ complementary_category(result.classification) # None
     /\ \E t \in ThreadIds :
           vector_index[t].category = CounterpartLabel(result.classification))
        => \A i \in 1..Len(result.context) :
               vector_index[result.context[i]].category
                   = CounterpartLabel(result.classification)

(* ---------------- hybrid_search_service.reciprocal_rank_fusion ---------------- *)
(* An item is kept by its id: item.get("thread_id") or item.get("id");     *)
(* NoId stands for an item that has neither.                                *)
ItemIds == {"a", "b"}
NoId == ""

RankedLists == UNION {[1..n -> ItemIds \cup {NoId}] : n \in 0..MaxRanked}

RECURSIVE Product(_, _)
Product(lo, hi) == IF lo > hi THEN 1 ELSE lo * Product(lo + 1, hi)

(* 1.0 / (k + rank + 1) as an exact fraction: the numerator over the       *)
(* common denominator of the ranks that occur.                              *)
Scale(k) == Product(k + 1, k + MaxRanked)

Weight(k, rank) == Scale(k) \div (k + rank + 1)

(* scores and the order in which its keys were inserted *)
EmptyScores == [scores |-> [i \in ItemIds |-> 0], keys |-> <<>>]

Keys(acc) == {acc.keys[i] : i \in 1..Len(acc.keys)}

(* for rank, item in enumerate(result_list): i is rank + 1 *)
RECURSIVE ScoreList(_, _, _, _)
ScoreList(acc, result_list, i, k) ==
    IF i > Len(result_list) THEN acc
    ELSE LET thread_id == result_list[i] IN
         IF thread_id = NoId THEN ScoreList(acc, result_list, i + 1, k)
         ELSE ScoreList([scores |-> [acc.scores EXCEPT ![thread_id] = @ + Weight(k, i - 1)],
                         keys |-> IF thread_id \in Keys(acc) THEN acc.keys
                                  ELSE Append(acc.keys, thread_id)],
                        result_list, i + 1, k)

(* for result_list in result_lists *)
RECURSIVE ScoreLists(_, _, _, _)
ScoreLists(acc, result_lists, j, k) ==
    IF j > Len(result_lists) THEN acc
    ELSE ScoreLists(ScoreList(acc, result_lists[j], 1, k), result_lists, j + 1, k)

(* One key put into a list that is sorted already, behind the keys that do *)
(* not compare smaller: the sort is stable.                                 *)
InsertDesc(sorted, key, scores) ==
    LET before == {i \in 1..Len(sorted) : scores[sorted[i]] >= scores[key]}
        n == Cardinality(before)
    IN SubSeq(sorted, 1, n) \o <<key>> \o SubSeq(sorted, n + 1, Len(sorted))

InsertAsc(sorted, key, scores) ==
    LET before == {i \in 1..Len(sorted) : scores[sorted[i]] <= scores[key]}
        n == Cardinality(before)
    IN SubSeq(sorted, 1, n) \o <<key>> \o SubSeq(sorted, n + 1, Len(sorted))

(* sorted(scores.items(), key=lambda x: x[1]) without reverse=True *)
RECURSIVE sorted_ascending(_, _, _)
sorted_ascending(keys, i, scores) ==
    IF i = 0 THEN <<>>
    ELSE InsertAsc(sorted_ascending(keys, i - 1, scores), keys[i], scores)

(* sorted(scores.items(), key=lambda x: x[1], reverse=True) of the first i keys *)
RECURSIVE sorted(_, _, _)
sorted(keys, i, scores) ==
    IF i = 0 THEN <<>>
    ELSE InsertDesc(sorted(keys, i - 1, scores), keys[i], scores)

Fused(result_lists, k) ==
    LET acc == ScoreLists(EmptyScores, result_lists, 1, k)
    IN sorted(acc.keys, Len(acc.keys), acc.scores)

(* reciprocal_rank_fusion that ranks every list but the first from its end *)
reciprocal_rank_fusion_tail_reversed(result_lists, k) ==
    Fused([j \in 1..Len(result_lists) |->
               IF j = 1 THEN result_lists[j] ELSE Reverse(result_lists[j])], k)

reciprocal_rank_fusion(result_lists, k) == Fused(result_lists, k)

(* The lists handed to the function: the vector results and the text       *)
(* results of hybrid_search, one list alone, and one list twice.            *)
FusionInputs ==
    {<<l>> : l \in RankedLists}
    \cup {<<l1, l2>> : l1 \in RankedLists, l2 \in RankedLists}

InitFusion ==
    /\ InitWorld
    /\ result \in {[op |-> "input", result_lists |-> ls] : ls \in FusionInputs}

Fuse ==
    /\ result.op = "input"
    /\ result' = [op |-> "reciprocal_rank_fusion",
                  result_lists |-> result.result_lists,
                  fused |-> reciprocal_rank_fusion(result.result_lists, RRF_K)]
    /\ UNCHANGED <<now, mailbox, labels, history, gmail_rate_limits, processed_message_ids,
                   monitored_threads, vector_index, last_history_ids,
                   auto_reply_configs, pending, poll, workers, sessions>>

NextFusion == Fuse

SpecFusion == InitFusion /\ [][NextFusion]_vars

(* The places (list, rank + 1) at which an id occurs in the lists. *)
Places(result_lists, id) ==
    {p \in (1..Len(result_lists)) \X (1..MaxRanked) :
        p[2] <= Len(result_lists[p[1]]) /\ result_lists[p[1]][p[2]] = id}

RECURSIVE SumWeights(_)
SumWeights(places) ==
    IF places = {} THEN 0
    ELSE LET p == CHOOSE q \in places : TRUE
         IN Product(RRF_K + 1, RRF_K + MaxRanked) \div (RRF_K + (p[2] - 1) + 1)
            + SumWeights(places \ {p})

(* The fused score of an id, over the common denominator. *)
FusedScore(result_lists, id) == SumWeights(Places(result_lists, id))

(* The place at which an id is seen first. *)
FirstSeen(result_lists, id) ==
    LET ps == Places(result_lists, id)
        p == CHOOSE q \in ps : \A r \in ps : q[1] < r[1] \/ (q[1] = r[1] /\ q[2] <= r[2])
    IN p[1] * (MaxRanked + 1) + p[2]

(* C16: reciprocal_rank_fusion returns each distinct thread id once, in    *)
(* the order of descending fused score, the score of an id being the sum    *)
(* of 1/(k + rank + 1) over every place it holds in any list; ids of equal  *)
(* score come in the order in which they were first seen.                   *)
C16_FusedOrder ==
    result.op = "reciprocal_rank_fusion" =>
        LET ls == result.result_lists
            out == result.fused
        IN /\ {out[i] : i \in 1..Len(out)} = {id \in ItemIds : Places(ls, id) # {}}
           /\ \A i, j \in 1..Len(out) : i < j =>
                 /\ out[i] # out[j]
                 /\ \/ FusedScore(ls, out[i]) > FusedScore(ls, out[j])
                    \/ /\ FusedScore(ls, out[i]) = FusedScore(ls, out[j])
                       /\ FirstSeen(ls, out[i]) < FirstSeen(ls, out[j])

(* Two lists were fused in which the two ids tie; they come in the order   *)
(* in which they were first seen, "b" before "a".                           *)
C16_Witness ==
    /\ result.op = "reciprocal_rank_fusion"
    /\ Len(result.result_lists) = 2
    /\ Len(result.fused) = 2
    /\ FusedScore(result.result_lists, "a") = FusedScore(result.result_lists, "b")
    /\ result.fused = <<"b", "a">>

(* C17: fusing a list with itself gives the ids in the same order as       *)
(* fusing the list alone.                                                   *)
C17_TwiceSameOrder ==
    (result.op = "reciprocal_rank_fusion" /\ Len(result.result_lists) = 1) =>
        reciprocal_rank_fusion(<<result.result_lists[1], result.result_lists[1]>>, RRF_K)
            = result.fused

(* A list alone was fused in which an id occurs twice and overtakes the id  *)
(* ranked first.                                                            *)
C17_Witness ==
    /\ result.op = "reciprocal_rank_fusion"
    /\ result.result_lists = << <<"a", "b", "b">> >>
    /\ result.fused = <<"b", "a">>

(* ---------------- properties of thread monitoring ---------------- *)
(* C18: a thread is in monitored_threads as soon as generate_and_send_reply *)
(* has sent a reply in it, and no operation takes a thread out of           *)
(* monitored_threads.                                                       *)
C18_MonitoredOnceReplied ==
    [][/\ monitored_threads \subseteq monitored_threads'
       /\ \A t \in ThreadIds :
             RepliesIn(mailbox'[t]) > RepliesIn(mailbox[t]) => t \in monitored_threads']_vars

(* A reply was sent in a thread that has no record in the index: the send   *)
(* registered it.                                                           *)
C18_Witness ==
    /\ result.op = "process_single_email"
    /\ result.message = "Auto-reply sent successfully"
    /\ result.send_calls = 1
    /\ vector_index[result.thread_id] = NoRecord
    /\ result.thread_id \in monitored_threads

C20_ReindexedOnlyWhenGrown ==
    [][/\ \A m \in MsgIds, mf \in MonitorFaults :
             (/\ result'.op = "thread_monitoring_notification"
              /\ MonitorNotification(m, mf)
              /\ ThreadOf(m) \in monitored_threads
              /\ result'.upserts > 0)
                 => Len(mailbox[ThreadOf(m)]) > vector_index[ThreadOf(m)].message_count
       /\ \A bad \in {{}} \cup {{t} : t \in ThreadIds} :
             (result'.op = "check_for_thread_updates" /\ check_for_thread_updates(bad))
                 => \A t \in ThreadIds :
                       vector_index'[t] # vector_index[t]
                           => Len(mailbox[t]) > vector_index[t].message_count]_vars

(* C21: a notification for a message id that is already in                  *)
(* processed_message_ids sends no reply but still runs the monitoring step  *)
(* for its thread: a thread that has a record and has grown since is        *)
(* written to the index again.                                              *)
C21_ProcessedStillMonitored ==
    [][\A m \in MsgIds, f \in StoreFaults :
          (/\ result'.op = "process_single_email"
           /\ m \in processed_message_ids
           /\ ProcessSingleEmail(m, f)
           /\ f.get = "ok")
              => /\ result'.send_calls = 0
                 /\ (/\ vector_index[ThreadOf(m)] # NoRecord
                     /\ Len(mailbox[ThreadOf(m)]) > vector_index[ThreadOf(m)].message_count)
                        => result'.upserts > 0]_vars


(* ---------------- background_tasks.periodic_email_check ---------------- *)
(* One poll cycle over several users.  The pipeline a check runs for one    *)
(* user (process_history_updates) is the one of SpecPoll; here its outcome  *)
(* is an input, and last_history_ids and auto_reply_configs are per user.   *)
UserIds == 1..MaxUsers

(* The users of a set in the order db.query(User).all() lists them. *)
RECURSIVE InOrder(_)
InOrder(S) ==
    IF S = {} THEN <<>>
    ELSE LET u == CHOOSE x \in S : \A y \in S : x <= y IN <<u>> \o InOrder(S \ {u})

Range(s) == {s[i] : i \in 1..Len(s)}

IdleCycle == [pc |-> "idle", users |-> <<>>, todo |-> <<>>, checked |-> {}, errors |-> {}]

(* What one call of check_emails_for_user does: it returns a dict, lets an  *)
(* exception out, or never comes back; cursor is last_history_ids[user].    *)
Checked(returned, raised, success, message, cursor) ==
    [returned |-> returned, raised |-> raised, success |-> success,
     message |-> message, cursor |-> cursor]

CheckOutcomes ==
    {"ok", "rate_limited", "credentials_error", "gateway_error",
     "pipeline_exception", "pipeline_failure", "hang"}

(* check_emails_for_user without the try/except of lines 83 and 130-133 *)
check_emails_for_user_reraise(cursor, pf, latest_history_id) ==
    IF pf = "hang" THEN Checked(FALSE, FALSE, FALSE, "", cursor)
    ELSE IF pf = "rate_limited" THEN Checked(TRUE, FALSE, FALSE, "rate_limited", cursor)
    ELSE IF pf = "credentials_error" THEN Checked(TRUE, TRUE, FALSE, "error", cursor)
    ELSE IF cursor = NoCursor
    THEN IF pf = "gateway_error"
         THEN Checked(TRUE, TRUE, FALSE, "error", cursor)
         ELSE Checked(TRUE, FALSE, TRUE, "Initialized history ID tracking", latest_history_id)
    ELSE IF pf = "pipeline_exception" THEN Checked(TRUE, TRUE, FALSE, "error", cursor)
    ELSE IF pf \in {"pipeline_failure", "gateway_error"}
    THEN Checked(TRUE, FALSE, FALSE, "Error processing history updates", cursor)
    ELSE Checked(TRUE, FALSE, TRUE, "Processed history updates", latest_history_id)

(* Lines 79-133: the whole body is inside try, and except Exception turns   *)
(* every exception into a returned failure dict.  A provider call that does *)
(* not return keeps the coroutine inside the call: nothing bounds it.       *)
check_emails_for_user(cursor, pf, latest_history_id) ==
    IF pf = "hang" THEN Checked(FALSE, FALSE, FALSE, "", cursor)
    ELSE IF pf = "rate_limited" THEN Checked(TRUE, FALSE, FALSE, "rate_limited", cursor)
    ELSE IF pf = "credentials_error" THEN Checked(TRUE, FALSE, FALSE, "error", cursor)
    ELSE IF cursor = NoCursor
    THEN IF pf = "gateway_error"
         THEN Checked(TRUE, FALSE, FALSE, "error", cursor)
         ELSE Checked(TRUE, FALSE, TRUE, "Initialized history ID tracking", latest_history_id)
    ELSE IF pf = "pipeline_exception" THEN Checked(TRUE, FALSE, FALSE, "error", cursor)
    ELSE IF pf \in {"pipeline_failure", "gateway_error"}
    THEN Checked(TRUE, FALSE, FALSE, "Error processing history updates", cursor)
    ELSE Checked(TRUE, FALSE, TRUE, "Processed history updates", latest_history_id)

CycleResult(users, checked, errors) ==
    [op |-> "periodic_email_check", users |-> users, checked |-> checked, errors |-> errors]

InitCycle ==
    /\ now = 0
    /\ mailbox = [t \in ThreadIds |-> <<>>]
    /\ labels = [m \in MsgIds |-> {}]
    /\ history = <<>>
    /\ gmail_rate_limits = <<>>
    /\ processed_message_ids = {}
    /\ monitored_threads = {}
    /\ vector_index = [t \in ThreadIds |-> NoRecord]
    /\ last_history_ids = [u \in UserIds |-> NoCursor]
    /\ auto_reply_configs = [u \in UserIds |-> [enabled |-> TRUE]]
    /\ pending = <<>>
    /\ poll = IdleCycle
    /\ workers = <<>>
    /\ sessions = <<>>
    /\ result = [op |-> "none"]

(* update_auto_reply_config of one user. *)
SetEnabled(u) ==
    /\ auto_reply_configs' = [auto_reply_configs EXCEPT ![u].enabled = ~@]
    /\ UNCHANGED <<now, mailbox, labels, history, gmail_rate_limits, processed_message_ids,
                   monitored_threads, vector_index, last_history_ids,
                   pending, poll, result, workers, sessions>>

(* Lines 141-163: the users whose config reads as enabled; a user whose     *)
(* config lookup raises (bad) is left out of the cycle.                     *)
CycleStart(bad) ==
    /\ poll.pc = "idle"
    /\ LET auto_reply_users ==
               InOrder({u \in UserIds \ bad : auto_reply_configs[u].enabled}) IN
       poll' = [IdleCycle EXCEPT !.pc = "cycle", !.users = auto_reply_users,
                                 !.todo = auto_reply_users]
    /\ UNCHANGED <<now, mailbox, labels, history, gmail_rate_limits, processed_message_ids,
                   monitored_threads, vector_index, last_history_ids,
                   auto_reply_configs, pending, result, workers, sessions>>

(* Line 172, one round of "for user in batch": the loop awaits the check of *)
(* the next user.  An exception that left the check would be caught at line *)
(* 185 and end the cycle; a check that does not return leaves the loop at   *)
(* the await.                                                               *)
CheckUser(pf, latest_history_id) ==
    /\ poll.pc = "cycle"
    /\ poll.todo # <<>>
    /\ LET user == Head(poll.todo)
           r == check_emails_for_user(last_history_ids[user], pf, latest_history_id) IN
       IF ~r.returned
       THEN /\ poll' = [poll EXCEPT !.pc = "hung"]
            /\ UNCHANGED <<last_history_ids, result>>
       ELSE IF r.raised
       THEN /\ poll' = IdleCycle
            /\ result' = CycleResult(poll.users, poll.checked, poll.errors)
            /\ UNCHANGED last_history_ids
       ELSE /\ poll' = [poll EXCEPT !.todo = Tail(@),
                                    !.checked = @ \cup {user},
                                    !.errors = IF r.message = "error" THEN @ \cup {user} ELSE @]
            /\ last_history_ids' = [last_history_ids EXCEPT ![user] = r.cursor]
            /\ result' = [op |-> "check_emails_for_user", user |-> user,
                          success |-> r.success, message |-> r.message]
    /\ UNCHANGED <<now, mailbox, labels, history, gmail_rate_limits, processed_message_ids,
                   monitored_threads, vector_index, auto_reply_configs, pending,
                   workers, sessions>>

(* Lines 174-183: every batch is through; the session is closed and the     *)
(* loop sleeps CHECK_INTERVAL.                                              *)
CycleFinish ==
    /\ poll.pc = "cycle"
    /\ poll.todo = <<>>
    /\ poll' = IdleCycle
    /\ result' = CycleResult(poll.users, poll.checked, poll.errors)
    /\ UNCHANGED <<now, mailbox, labels, history, gmail_rate_limits, processed_message_ids,
                   monitored_threads, vector_index, last_history_ids,
                   auto_reply_configs, pending, workers, sessions>>

(* What .get("historyId") gives on a provider answer: a history position,  *)
(* or None (NoCursor) when the answer carries no historyId.                 *)
HistoryIds == MsgIds \cup {NoCursor}

PollerNext ==
    \/ \E bad \in {{}} \cup {{u} : u \in UserIds} : CycleStart(bad)
    \/ \E pf \in CheckOutcomes, h \in HistoryIds : CheckUser(pf, h)
    \/ CycleFinish

NextCycle ==
    \/ \E u \in UserIds : SetEnabled(u)
    \/ \E bad \in {{}} \cup {{u} : u \in UserIds} : CycleStart(bad)
    \/ \E pf \in CheckOutcomes, h \in HistoryIds : CheckUser(pf, h)
    \/ CycleFinish

SpecCycle == InitCycle /\ [][NextCycle]_vars

(* The event loop runs the poller task whenever it can take a step. *)
SpecCycleLive == InitCycle /\ [][NextCycle]_vars /\ WF_vars(PollerNext)

(* C22: an error while checking one user does not abort the poll cycle:     *)
(* whatever a check returns, the loop goes on with the remaining users, and *)
(* a cycle that ends has checked every enabled user it started with.        *)
C22_ErrorDoesNotAbortCycle ==
    /\ [](result.op = "periodic_email_check" => result.checked = Range(result.users))
    /\ [][(poll.pc = "cycle" /\ poll.todo # <<>> /\ poll' # poll /\ poll'.pc # "hung")
             => /\ poll'.pc = "cycle"
                /\ poll'.todo = Tail(poll.todo)
                /\ poll'.checked = poll.checked \cup {Head(poll.todo)}]_vars

(* A cycle has ended in which the check of one user failed with an          *)
(* exception and a user after it was checked all the same.                  *)
C22_Witness ==
    /\ result.op = "periodic_email_check"
    /\ \E u \in result.errors : \E v \in result.checked : v > u

(* C29: a user whose check does not return does not starve the cycle:       *)
(* every user after it is eventually checked.                               *)
C29_HangDoesNotStarve ==
    \A u \in UserIds :
        (poll.pc = "hung" /\ u \in Range(Tail(poll.todo))) ~> (u \in poll.checked)


(* ---------------- process_single_email on its own ---------------- *)
(* Every message is handled by process_single_email with each single fault  *)
(* of Faults: a failing classifier and a model that gives no reply text     *)
(* among them.                                                              *)
HandleSingleEmail(email_id, f) ==
    /\ mailbox[ThreadOf(email_id)] # <<>>
    /\ LET r == process_single_email(World, email_id, f) IN
       /\ Commit(r.w)
       /\ result' = [StoreResult("process_single_email", ThreadOf(email_id), r.success,
                                 r.message, r.w.send_calls, r.w.upserts)
                         EXCEPT !.op = IF r.kind = "tuple" THEN "tuple" ELSE @]
    /\ UNCHANGED <<now, labels, history, last_history_ids, auto_reply_configs,
                   pending, poll, workers, sessions>>

NextSingle ==
    \/ \E m \in MsgIds : Arrive(m, {"INBOX", "UNREAD"})
    \/ Tick
    \/ \E t \in ThreadIds : FollowUp(t)
    \/ \E m \in MsgIds, f \in Faults : HandleSingleEmail(m, f)

SpecSingle == Init /\ [][NextSingle]_vars

(* The handler reaches the classifier for message m: no limit is in effect, *)
(* the message and its thread are read, the id is not in the cache, and the *)
(* latest message is recent and not yet answered.                           *)
ReachesClassifier(m, f) ==
    /\ mailbox[ThreadOf(m)] # <<>>
    /\ get_active_limit(gmail_rate_limits, now) = NoLimit
    /\ f.get = "ok"
    /\ m \notin processed_message_ids
    /\ IsRecent(mailbox[ThreadOf(m)])
    /\ ~_user_already_replied(mailbox[ThreadOf(m)])

(* C23: when the classifier fails, process_single_email does not abort but  *)
(* goes on to reply generation: with a model that gives reply text and a    *)
(* gateway that accepts the send, the reply goes out.                       *)
C23_ClassifierFailureStillReplies ==
    [][\A m \in MsgIds, f \in Faults :
          (/\ result'.op = "process_single_email"
           /\ f.classification = "<fail>"
           /\ ReachesClassifier(m, f)
           /\ HandleSingleEmail(m, f))
              => /\ result'.send_calls = 1
                 /\ result'.message # "Error processing email"]_vars

(* C24: when reply generation yields no text, nothing is sent, the message  *)
(* is not marked processed, and the per-message result is a success result. *)
C24_NoTextIsSuccess ==
    [][\A m \in MsgIds, f \in Faults :
          (/\ result'.op = "process_single_email"
           /\ ~f.reply
           /\ ReachesClassifier(m, f)
           /\ HandleSingleEmail(m, f))
              => /\ result'.send_calls = 0
                 /\ m \notin processed_message_ids'
                 /\ result'.success]_vars


(* ---------------- AutoReplyManager._generate_reply_with_gpt ---------------- *)
(* A text is a sequence of characters; the alphabet has the two brackets, a *)
(* letter and the blank.                                                    *)
Chars == {"[", "]", "a", " "}
Texts == UNION {[1..n -> Chars] : n \in 0..MaxChars}

(* str.strip(): the blanks at both ends go. *)
RECURSIVE lstrip(_)
lstrip(s) == IF s # <<>> /\ Head(s) = " " THEN lstrip(Tail(s)) ELSE s

RECURSIVE rstrip(_)
rstrip(s) == IF s # <<>> /\ Last(s) = " " THEN rstrip(SubSeq(s, 1, Len(s) - 1)) ELSE s

strip(s) == rstrip(lstrip(s))

(* The place of the first "]" after place i, 0 when there is none. *)
FirstClose(s, i) ==
    LET closes == {j \in (i + 1)..Len(s) : s[j] = "]"} IN
    IF closes = {} THEN 0 ELSE CHOOSE j \in closes : \A k \in closes : j <= k

(* re.sub(r"\[([^\]]+)\]", r"\1", s) from place i on: one pass from left to *)
(* right over the matches that do not overlap.  A match starts at a "[" and *)
(* runs to the first "]" after it, with at least one character in between   *)
(* (the class [^\]] takes "[" as well); it is replaced by what is between.  *)
RECURSIVE re_sub_brackets(_, _)
re_sub_brackets(s, i) ==
    IF i > Len(s) THEN <<>>
    ELSE IF s[i] = "[" /\ FirstClose(s, i) >= i + 2
    THEN SubSeq(s, i + 1, FirstClose(s, i) - 1) \o re_sub_brackets(s, FirstClose(s, i) + 1)
    ELSE <<s[i]>> \o re_sub_brackets(s, i + 1)

(* The categories a reply is generated for, and those a user may have a     *)
(* custom auto_reply prompt for.                                            *)
ReplyCategories ==
    {"Job Posting", "Candidate", "Event", "Questions", "Discussion Topics", "Other", "General"}

PromptCategories == {"Job Posting", "Candidate", "Questions", "Other", "job posting"}

Custom(category) == [kind |-> "custom", name |-> category]
Default(name) == [kind |-> "default", name |-> name]

(* Lines 621-643: the built-in prompt for a classification. *)
default_prompt(classification) ==
    IF lower(classification) \in {"job posting"} THEN Default("job_posting")
    ELSE IF lower(classification) \in {"candidate"} THEN Default("candidate")
    ELSE IF lower(classification) \in {"questions", "discussion topics", "event"}
    THEN Default("context_only")
    ELSE Default("auto_reply")

(* the choice of the prompt without the generic custom prompt of lines 602-613 *)
system_prompt_category_only(user_found, custom_prompts, classification) ==
    IF ~user_found THEN Default("auto_reply")
    ELSE IF classification \in custom_prompts THEN Custom(classification)
    ELSE default_prompt(classification)

(* Lines 585-647.  custom_prompts: the categories of the user's CustomPrompt *)
(* rows of type auto_reply.                                                 *)
system_prompt(user_found, custom_prompts, classification) ==
    IF ~user_found THEN Default("auto_reply")
    ELSE IF classification \in custom_prompts THEN Custom(classification)
    ELSE IF "Other" \in custom_prompts THEN Custom("Other")
    ELSE default_prompt(classification)

(* Lines 564-713: content is what the model answers, model_error a call of  *)
(* the model that raises.                                                   *)
_generate_reply_with_gpt(user_found, custom_prompts, classification, model_error, content) ==
    [system_prompt |-> system_prompt(user_found, custom_prompts, classification),
     reply_content |-> IF model_error THEN <<None>>
                       ELSE re_sub_brackets(strip(content), 1)]

GenerateInput(user_found, custom_prompts, classification, model_error, content) ==
    [op |-> "input", user_found |-> user_found, custom_prompts |-> custom_prompts,
     classification |-> classification, model_error |-> model_error, content |-> content]

(* The prompt varies, the model's answer is fixed. *)
InitGenerate ==
    /\ InitWorld
    /\ result \in {GenerateInput(u, cp, c, e, <<"a">>) :
                      u \in BOOLEAN, cp \in SUBSET PromptCategories,
                      c \in ReplyCategories, e \in BOOLEAN}
    /\ result.user_found \/ result.custom_prompts = {}

(* The model's answer varies, the prompt is fixed. *)
InitStrip ==
    /\ InitWorld
    /\ result \in {GenerateInput(TRUE, {}, "Questions", e, t) : e \in BOOLEAN, t \in Texts}

GenerateReplyWithGpt ==
    /\ result.op = "input"
    /\ LET r == _generate_reply_with_gpt(result.user_found, result.custom_prompts,
                                         result.classification, result.model_error,
                                         result.content) IN
       result' = [result EXCEPT !.op = "_generate_reply_with_gpt"] @@ r
    /\ UNCHANGED <<now, mailbox, labels, history, gmail_rate_limits, processed_message_ids,
                   monitored_threads, vector_index, last_history_ids,
                   auto_reply_configs, pending, poll, workers, sessions>>

NextGenerate == GenerateReplyWithGpt

SpecGenerate == InitGenerate /\ [][NextGenerate]_vars

SpecStrip == InitStrip /\ [][NextGenerate]_vars

(* A "[" followed by one or more characters other than "]" and then "]". *)
HasBracketedToken(s) ==
    \E i \in 1..Len(s), j \in 1..Len(s) :
        /\ j >= i + 2
        /\ s[i] = "["
        /\ s[j] = "]"
        /\ \A k \in (i + 1)..(j - 1) : s[k] # "]"

(* C25: whatever the model answers, the reply text the function returns     *)
(* contains no bracketed token.                                             *)
C25_NoBracketedToken ==
    (result.op = "_generate_reply_with_gpt" /\ ~result.model_error)
        => ~HasBracketedToken(result.reply_content)

(* C26: the system prompt is the user's custom prompt for the category of   *)
(* the thread when there is one, and otherwise the built-in prompt of that  *)
(* category.                                                                *)
C26_CustomElseDefault ==
    (result.op = "_generate_reply_with_gpt" /\ result.user_found)
        => result.system_prompt =
               IF result.classification \in result.custom_prompts
               THEN Custom(result.classification)
               ELSE default_prompt(result.classification)

(* C26 as the code has it: between the two comes the user's custom prompt   *)
(* of category "Other", which stands in for every category without a prompt *)
(* of its own; a user that is not found gets the general built-in prompt.   *)
C26_CustomElseGenericElseDefault ==
    result.op = "_generate_reply_with_gpt"
        => result.system_prompt =
               IF ~result.user_found THEN Default("auto_reply")
               ELSE IF result.classification \in result.custom_prompts
               THEN Custom(result.classification)
               ELSE IF "Other" \in result.custom_prompts THEN Custom("Other")
               ELSE default_prompt(result.classification)

(* A reply for a job posting of a user who has no prompt for job postings   *)
(* but one for "Other" was generated with that prompt.                      *)
C26_Witness ==
    /\ result.op = "_generate_reply_with_gpt"
    /\ result.classification = "Job Posting"
    /\ "Job Posting" \notin result.custom_prompts
    /\ "Other" \in result.custom_prompts
    /\ result.system_prompt = Custom("Other")


(* ---------------- email_service.send_email: the headers of a reply ---------------- *)
(* The Message-ID header of the i-th message of a thread, and the value     *)
(* line 895 makes up from the thread id.                                    *)
MessageId(thread_id, i) == <<"Message-ID", thread_id, i>>
Synthesized(thread_id) == <<"thread_id@mail.gmail.com", thread_id>>

(* The message send_email replies to (lines 636-648): the most recent one   *)
(* that is not from the user, the last one when all are; 0 without messages. *)
message_id_to_reply_to(messages) ==
    LET others == {i \in 1..Len(messages) : messages[i].sender # "user"} IN
    IF messages = <<>> THEN 0
    ELSE IF others = {} THEN Len(messages)
    ELSE CHOOSE i \in others : \A j \in others : j <= i

Sent(w, success, in_reply_to, references, replied_to) ==
    [w |-> w, success |-> success, in_reply_to |-> in_reply_to,
     references |-> references, replied_to |-> replied_to]

(* What the steps before the send find: get_thread answers or raises        *)
(* (line 574); messages().get answers with the header under the name        *)
(* "Message-ID", answers with it under another spelling ("Message-Id"), or  *)
(* raises (lines 652-670).                                                   *)
ThreadReads == {"ok", "error"}
MessageReads == {"Message-ID", "Message-Id", "error"}

(* send_email with a thread_id (lines 571-928).  outs are the answers of    *)
(* the gateway to the sends of the three methods in turn.  The dicts of     *)
(* get_thread carry no "headers" (lines 395-427), so lines 590-593 and      *)
(* 872-888 find nothing, and line 629 resets original_message_id.           *)
send_email_reply(w, thread_id, thread_read, message_read, outs) ==
    LET messages == IF thread_read = "ok" THEN w.mailbox[thread_id] ELSE <<>>
        to == message_id_to_reply_to(messages)
        original_gmail_message == to # 0 /\ message_read # "error"
        original_message_id ==
            IF to # 0 /\ message_read = "Message-ID" THEN MessageId(thread_id, to) ELSE <<None>>
        thread_message_id ==
            IF original_message_id # <<None>> THEN original_message_id
            ELSE Synthesized(thread_id)
        one == IF original_gmail_message THEN send_email(w, thread_id, outs[1])
               ELSE [w |-> w, raised |-> StrHTTPException(500, outs[1])]
        two == send_email(one.w, thread_id, outs[2])
        three == send_email(two.w, thread_id, outs[3])
    IN
    IF one.raised = NoException
    THEN Sent(one.w, TRUE, original_message_id, original_message_id, to)
    ELSE IF two.raised = NoException
    THEN Sent(two.w, TRUE, original_message_id, original_message_id, to)
    ELSE IF three.raised = NoException
    THEN Sent(three.w, TRUE, thread_message_id, thread_message_id, to)
    ELSE Sent(three.w, FALSE, <<None>>, <<None>>, to)

(* The answers of the gateway to the sends: all accepted, or the first one  *)
(* or two refused.                                                          *)
SendAnswers ==
    LET refused == ErrText(FALSE, FALSE, "none", "none", 0) IN
    {<<SendOk, SendOk, SendOk>>, <<refused, SendOk, SendOk>>,
     <<refused, refused, SendOk>>, <<refused, refused, refused>>}

SendReply(thread_id, thread_read, message_read, outs) ==
    /\ mailbox[thread_id] # <<>>
    /\ LET r == send_email_reply(World, thread_id, thread_read, message_read, outs) IN
       /\ Commit(r.w)
       /\ result' = [op |-> "send_email", thread_id |-> thread_id, success |-> r.success,
                     in_reply_to |-> r.in_reply_to, references |-> r.references,
                     replied_to |-> r.replied_to, thread_read |-> thread_read,
                     message_read |-> message_read, send_calls |-> r.w.send_calls]
    /\ UNCHANGED <<now, labels, history, last_history_ids, auto_reply_configs,
                   pending, poll, workers, sessions>>

NextThreading ==
    \/ \E m \in MsgIds : Arrive(m, {"INBOX", "UNREAD"})
    \/ Tick
    \/ FollowUp(1)
    \/ \E tr \in ThreadReads, mr \in MessageReads, outs \in SendAnswers :
          SendReply(1, tr, mr, outs)

SpecThreading == Init /\ [][NextThreading]_vars

(* C27: every reply sent with a thread id carries In-Reply-To and           *)
(* References equal to the Message-ID header of the message replied to:     *)
(* never a value made up from the thread id, never none.                    *)
C27_TrueMessageIdHeaders ==
    (result.op = "send_email" /\ result.success)
        => /\ result.replied_to # 0
           /\ result.in_reply_to = MessageId(result.thread_id, result.replied_to)
           /\ result.references = MessageId(result.thread_id, result.replied_to)


(* ---------------- generate_and_send_reply when the search fails ---------------- *)
(* One call of vector_db.search_threads as the caller sees it: the list it  *)
(* returns, or an exception.                                                *)
Searched(raised, threads) == [raised |-> raised, threads |-> threads]

(* a search_threads that lets the error of the query out *)
search_threads_call_reraise(index, query_embedding, top_k, filter_category, q) ==
    Searched(q = "error", search_threads(index, query_embedding, top_k, filter_category, q))

(* vector_db_service.py lines 156-227: the error of index.query is caught   *)
(* (lines 168-180) and an empty list is returned; nothing is raised.        *)
search_threads_call(index, query_embedding, top_k, filter_category, q) ==
    Searched(FALSE, search_threads(index, query_embedding, top_k, filter_category, q))

(* Lines 280-304 with their exceptions: an exception of the first or of the *)
(* second search is caught at line 297 and the unfiltered search of line    *)
(* 302 is made, outside the try; what that one raises leaves the block.     *)
context_threads(index, classification, query_embedding, q1, q2) ==
    LET category == complementary_category(classification)
        first == search_threads_call(index, query_embedding, MAX_CONTEXT_THREADS, category, q1)
        second == search_threads_call(index, query_embedding, MAX_CONTEXT_THREADS, None, q2)
    IN IF first.raised THEN second
       ELSE IF Len(first.threads) = 0 /\ category # None THEN second
       ELSE first

(* generate_and_send_reply with the search on the way (lines 235-427): an   *)
(* exception that leaves the search ends the call at line 425 with          *)
(* (False, None).                                                           *)
generate_and_send_reply_with_search(w, thread_id, classification, reply, out, e, q1, q2) ==
    LET found == context_threads(w.vector_index, classification, e, q1, q2)
        searched == get_active_limit(w.gmail_rate_limits, now) = NoLimit
        g == IF searched /\ found.raised
             THEN Reply(w, FALSE, "none", -1, FALSE)
             ELSE generate_and_send_reply(w, thread_id, classification, reply, out)
    IN [g |-> g, searched |-> searched,
        context |-> IF searched /\ ~found.raised THEN found.threads ELSE <<>>]

GenerateReplyWithSearch(thread_id, classification, f, query_embedding, q1, q2) ==
    /\ mailbox[thread_id] # <<>>
    /\ LET r == generate_and_send_reply_with_search(World, thread_id, classification,
                                                    f.reply, f.send, query_embedding, q1, q2)
       IN
       /\ Commit(r.g.w)
       /\ result' = [SearchResult(thread_id, r.g.reply_sent, classification, query_embedding,
                                  q1, q2, r.searched, r.context)
                         EXCEPT !.op = "generate_and_send_reply_with_search"]
                    @@ [f |-> f, send_calls |-> r.g.w.send_calls]
    /\ UNCHANGED <<now, labels, history, last_history_ids, auto_reply_configs,
                   pending, poll, workers, sessions>>

(* The index answers both queries, fails the first, the second, or both. *)
DegradedOutcomes == {"ok", "error"} \X {"ok", "error"}

DegradeLabels == {"", "Candidate"}

NextDegrade ==
    \/ \E m \in MsgIds : Arrive(m, {"INBOX", "UNREAD"})
    \/ \E t \in ThreadIds, c \in DegradeLabels : index_thread(t, c, "ok")
    \/ \E c \in {"Job Posting", "Questions"}, e \in Rankings, q \in DegradedOutcomes :
          GenerateReplyWithSearch(1, c, Happy, e, q[1], q[2])

SpecDegrade == Init /\ [][NextDegrade]_vars

(* The queries the call makes: the first always, the second when the first  *)
(* gave nothing and a category was asked for.                               *)
SearchFailed(r) ==
    \/ r.q1 = "error"
    \/ /\ r.q2 = "error"
       /\ complementary_category(r.classification) # None
       /\ search_threads(vector_index, r.query_embedding, MAX_CONTEXT_THREADS,
                         complementary_category(r.classification), r.q1) = <<>>

(* C28: a failure of the vector search never aborts the reply: the context  *)
(* is what the unfiltered search returns or empty, and with reply text and  *)
(* a gateway that accepts, the reply is generated and sent.                 *)
C28_SearchFailureStillReplies ==
    (/\ result.op = "generate_and_send_reply_with_search"
     /\ result.searched
     /\ SearchFailed(result))
        => /\ result.context \in
                  {<<>>, search_threads(vector_index, result.query_embedding,
                                        MAX_CONTEXT_THREADS, None, "ok")}
           /\ result.f = Happy => (result.success /\ result.send_calls = 1)

(* The filtered query failed, the unfiltered one gave the context, and the  *)
(* reply was sent.                                                          *)
C28_Witness ==
    /\ result.op = "generate_and_send_reply_with_search"
    /\ result.searched
    /\ result.classification = "Job Posting"
    /\ result.q1 = "error"
    /\ result.context # <<>>
    /\ result.success
    /\ result.send_calls = 1


(* ---------------- email_service.get_thread: the order of the messages ---------------- *)
(* A message of a thread at the provider: internalDate is the timestamp the *)
(* provider gave it, date the Date header as the sender wrote it (what      *)
(* process_email_metadata parses into Email.date).                          *)
ProviderMessages == [internalDate : Stamps, date : Stamps]

(* The threads.get answers: up to MaxThreadLen messages. *)
ProviderThreads == UNION {[1..n -> ProviderMessages] : n \in 1..MaxThreadLen}

(* list.sort(key) and ORDER BY key ASC over the places ids of the list      *)
(* msgs: ascending by key, equal keys in the order they had.                *)
RECURSIVE sort_by(_, _)
sort_by(ids, key) ==
    IF ids = <<>> THEN <<>>
    ELSE LET rest == sort_by(Tail(ids), key)
             before == SelectSeq(rest, LAMBDA j : key[j] < key[Head(ids)])
             after == SelectSeq(rest, LAMBDA j : key[j] >= key[Head(ids)])
         IN before \o <<Head(ids)>> \o after

Positions(n) == [i \in 1..n |-> i]

(* get_thread lines 277-507: the list "messages" as places of the           *)
(* provider's list.  cached: the places whose Email row is in the database. *)
(* When every message has its row the rows are used, in the order of        *)
(* Email.date, each with internal_date 0; otherwise the provider's          *)
(* messages are used with their internalDate.  Line 507 sorts by            *)
(* internal_date.                                                           *)
get_thread_messages(thread, cached) ==
    LET n == Len(thread)
        from_cache == cached # {} /\ Cardinality(cached) = n
        cached_messages == sort_by(Positions(n), [i \in 1..n |-> thread[i].date])
        internal_date == [i \in 1..n |-> IF from_cache THEN 0 ELSE thread[i].internalDate]
    IN sort_by(IF from_cache THEN cached_messages ELSE Positions(n), internal_date)

InitThread ==
    /\ InitWorld
    /\ result \in {[op |-> "input", thread |-> t, cached |-> c] :
                      t \in ProviderThreads, c \in SUBSET (1..MaxThreadLen)}
    /\ result.cached \subseteq 1..Len(result.thread)

GetThread ==
    /\ result.op = "input"
    /\ result' = [op |-> "get_thread", thread |-> result.thread, cached |-> result.cached,
                  messages |-> get_thread_messages(result.thread, result.cached)]
    /\ UNCHANGED <<now, mailbox, labels, history, gmail_rate_limits, processed_message_ids,
                   monitored_threads, vector_index, last_history_ids,
                   auto_reply_configs, pending, poll, workers, sessions>>

NextThread == GetThread

SpecThread == InitThread /\ [][NextThread]_vars

(* C30: the list get_thread returns is ordered by the timestamp of the      *)
(* provider, from the gateway and from the cache alike, so its last message *)
(* is one with the greatest such timestamp.                                 *)
C30_OrderedByInternalDate ==
    result.op = "get_thread"
        => /\ \A i, j \in 1..Len(result.messages) :
                 i < j => result.thread[result.messages[i]].internalDate
                              <= result.thread[result.messages[j]].internalDate
           /\ \A i \in 1..Len(result.thread) :
                 result.thread[i].internalDate
                     <= result.thread[Last(result.messages)].internalDate


(* Message m is one a handler would answer: unread, alone in its thread,    *)
(* recent, not in the cache, and no limit is in effect.                     *)
Answerable(m) ==
    /\ {"INBOX", "UNREAD"} \subseteq labels[m]
    /\ Len(mailbox[ThreadOf(m)]) = 1
    /\ IsRecent(mailbox[ThreadOf(m)])
    /\ m \notin processed_message_ids
    /\ get_active_limit(gmail_rate_limits, now) = NoLimit

(* C31: a notification with a historyId and no emailId has the changes      *)
(* since that position handled by process_single_email: when nothing fails, *)
(* an answerable message among them gets its reply.                         *)
C31_HistoryIdIsProcessed ==
    [][\A m \in MsgIds :
          (/\ pending # <<>>
           /\ Head(pending).kind = "historyId"
           /\ auto_reply_configs.enabled
           /\ Answerable(m)
           /\ \E k \in 1..Len(history) : history[k] = m
           /\ _process_webhook_message(Happy))
              => Len(mailbox'[ThreadOf(m)]) = 2]_vars


(* ---------------- the poller under a send-rate limit ---------------- *)
(* The cursor was initialised while the change log was empty; afterwards    *)
(* messages arrive unread and the only thing that goes wrong is a send the  *)
(* gateway refuses with a rate limit that names its end.                    *)
InitBackpressure ==
    /\ now = 0
    /\ mailbox = [t \in ThreadIds |-> <<>>]
    /\ labels = [m \in MsgIds |-> {}]
    /\ history = <<>>
    /\ gmail_rate_limits = <<>>
    /\ processed_message_ids = {}
    /\ monitored_threads = {}
    /\ vector_index = [t \in ThreadIds |-> NoRecord]
    /\ last_history_ids = 0
    /\ auto_reply_configs = [enabled |-> TRUE, push_notification_history_id |-> NoCursor]
    /\ pending = <<>>
    /\ poll = IdlePoll
    /\ workers = <<>>
    /\ sessions = <<>>
    /\ result = [op |-> "none"]

BackpressureFaults ==
    {Happy} \cup {[Happy EXCEPT !.send = ErrText(TRUE, FALSE, "frac", "none", s)] : s \in Stamps}

(* The steps of the poller thread. *)
PollerSteps ==
    \/ PollStart("ok")
    \/ \E f \in BackpressureFaults : PollStep(f)
    \/ PollFinish

NextBackpressure ==
    \/ \E m \in MsgIds : Arrive(m, {"INBOX", "UNREAD"})
    \/ Tick
    \/ PollStart("ok")
    \/ \E f \in BackpressureFaults : PollStep(f)
    \/ PollFinish

(* periodic_email_check keeps running: the poller takes a step whenever it  *)
(* can.                                                                     *)
SpecBackpressure == InitBackpressure /\ [][NextBackpressure]_vars /\ WF_vars(PollerSteps)

(* The place of message m in the change log, 0 when it is not in it. *)
PlaceInHistory(m) ==
    IF \E k \in 1..Len(history) : history[k] = m
    THEN CHOOSE k \in 1..Len(history) : history[k] = m
    ELSE 0

(* Message m was in a batch that hit the limit and got no reply; the limit  *)
(* has cleared, the poller is between two cycles, and m is still recent.    *)
BlockedAndCleared(m) ==
    /\ poll.pc = "idle"
    /\ PlaceInHistory(m) # 0
    /\ PlaceInHistory(m) <= last_history_ids
    /\ gmail_rate_limits # <<>>
    /\ Answerable(m)

(* C32: a message whose reply was blocked by the send-rate limit while its  *)
(* batch was processed is replied to by a later poll cycle once the limit   *)
(* has cleared, as long as polling goes on and the message is recent.       *)
C32_BlockedEventuallyReplied ==
    \A m \in MsgIds :
        BlockedAndCleared(m)
            ~> (\/ RepliesIn(mailbox[ThreadOf(m)]) > 0
                \/ mailbox[ThreadOf(m)] = <<>>
                \/ ~IsRecent(mailbox[ThreadOf(m)]))


(* The fault of a message the classifier calls irrelevant. *)
IrrelevantMessage == [Happy EXCEPT !.classification = "Irrelevant"]

(* C33: a message classified irrelevant inside a polled batch does not      *)
(* stall the batch: process_single_email yields a structured result for it, *)
(* the loop goes on to the remaining changes in change-log order, and the   *)
(* batch stays on its way to the cursor update.                             *)
C33_IrrelevantDoesNotStall ==
    [][(/\ poll.pc = "scan"
        /\ poll.todo # <<>>
        /\ {"INBOX", "UNREAD"} \subseteq labels[Head(poll.todo)]
        /\ ReachesClassifier(Head(poll.todo), IrrelevantMessage)
        /\ PollStep(IrrelevantMessage))
          => /\ process_single_email(World, Head(poll.todo), IrrelevantMessage).kind = "dict"
             /\ poll'.pc = "scan"
             /\ poll'.todo = Tail(poll.todo)
             /\ poll'.new_history_id = poll.new_history_id]_vars


(* C34: once check_emails_for_user has initialised a user's history cursor, *)
(* the stored cursor is never absent or null again, so that no later cycle  *)
(* initialises it again to the provider's current position.                 *)
C34_CursorStaysInitialised ==
    [][\A u \in UserIds :
          last_history_ids[u] # NoCursor => last_history_ids'[u] # NoCursor]_vars


(* C35: once a thread is stored in the vector index with a non-empty        *)
(* category, every later re-index of the thread by the pipeline (the        *)
(* monitoring step of process_single_email, the notification handler with   *)
(* its lazy registration, check_for_thread_updates) leaves a category in    *)
(* the stored record, and the two monitoring operations leave that one.     *)
C35_ReindexKeepsCategory ==
    [][\A t \in ThreadIds :
          (/\ result'.op \in {"process_single_email", "thread_monitoring_notification",
                              "check_for_thread_updates"}
           /\ vector_index[t] # NoRecord
           /\ vector_index[t].category # "")
             => /\ vector_index'[t] # NoRecord
                /\ vector_index'[t].category # ""
                /\ result'.op # "process_single_email"
                      => vector_index'[t].category = vector_index[t].category]_vars


(* ---------------- start_background_tasks / stop_background_tasks ---------------- *)
(* poll holds the module state of background_tasks: the flag should_continue, *)
(* task_thread (0 for None, else the place of the thread in threads), and     *)
(* where every thread started so far is in periodic_email_check: "while" (at  *)
(* the test of the flag), "cycle" (collecting the users), "sleep",            *)
(* "check" (in the batches), "backoff" (the sleep after an exception),        *)
(* "exited".  result holds the most recent call.                              *)
InitLifecycle ==
    /\ now = 0
    /\ mailbox = [t \in ThreadIds |-> <<>>]
    /\ labels = [m \in MsgIds |-> {}]
    /\ history = <<>>
    /\ gmail_rate_limits = <<>>
    /\ processed_message_ids = {}
    /\ monitored_threads = {}
    /\ vector_index = [t \in ThreadIds |-> NoRecord]
    /\ last_history_ids = NoCursor
    /\ auto_reply_configs = [enabled |-> TRUE, push_notification_history_id |-> NoCursor]
    /\ pending = <<>>
    /\ poll = [should_continue |-> TRUE, task_thread |-> 0, threads |-> <<>>, cycles |-> 0]
    /\ workers = <<>>
    /\ sessions = <<>>
    /\ result = [op |-> "none"]

is_alive(i) == poll.threads[i] # "exited"

AliveLoops == {i \in 1..Len(poll.threads) : is_alive(i)}

LifecycleUnchanged ==
    UNCHANGED <<now, mailbox, labels, history, gmail_rate_limits, processed_message_ids,
                monitored_threads, vector_index, last_history_ids, auto_reply_configs,
                pending, workers, sessions>>

(* Lines 205-223. *)
start_background_tasks ==
    /\ \/ poll.task_thread # 0 /\ is_alive(poll.task_thread)
       \/ Len(poll.threads) < MaxStarts
    /\ poll' = IF poll.task_thread # 0 /\ is_alive(poll.task_thread)
               THEN poll
               ELSE [poll EXCEPT !.should_continue = TRUE,
                                 !.task_thread = Len(poll.threads) + 1,
                                 !.threads = Append(@, "while")]
    /\ result' = [op |-> "start_background_tasks"]
    /\ LifecycleUnchanged

(* Lines 226-233. *)
stop_background_tasks ==
    /\ poll' = [poll EXCEPT !.should_continue = FALSE]
    /\ result' = [op |-> "stop_background_tasks"]
    /\ LifecycleUnchanged

(* Line 141, "while should_continue:". *)
LoopTest(i) ==
    /\ i <= Len(poll.threads)
    /\ poll.threads[i] = "while"
    /\ poll' = [poll EXCEPT !.threads[i] = IF poll.should_continue THEN "cycle" ELSE "exited"]
    /\ UNCHANGED result
    /\ LifecycleUnchanged

(* Lines 143-163: a session is opened and the users with auto-reply enabled *)
(* are collected; an exception leads to the sleep of line 189.              *)
LoopCycle(i, raised) ==
    /\ i <= Len(poll.threads)
    /\ poll.threads[i] = "cycle"
    /\ poll' = [poll EXCEPT !.threads[i] = IF raised THEN "backoff" ELSE "check"]
    /\ UNCHANGED result
    /\ LifecycleUnchanged

(* Lines 165-183: the batches are checked and the loop sleeps               *)
(* CHECK_INTERVAL; cycles counts the cycles that came this far.             *)
LoopCheck(i, raised) ==
    /\ i <= Len(poll.threads)
    /\ poll.threads[i] = "check"
    /\ poll.cycles < MaxCycles
    /\ poll' = [poll EXCEPT !.threads[i] = IF raised THEN "backoff" ELSE "sleep",
                            !.cycles = IF raised THEN @ ELSE @ + 1]
    /\ UNCHANGED result
    /\ LifecycleUnchanged

LoopWake(i) ==
    /\ i <= Len(poll.threads)
    /\ poll.threads[i] \in {"sleep", "backoff"}
    /\ poll' = [poll EXCEPT !.threads[i] = "while"]
    /\ UNCHANGED result
    /\ LifecycleUnchanged

NextLifecycle ==
    \/ start_background_tasks
    \/ stop_background_tasks
    \/ \E i \in 1..MaxStarts : LoopTest(i)
    \/ \E i \in 1..MaxStarts, raised \in BOOLEAN : LoopCycle(i, raised)
    \/ \E i \in 1..MaxStarts, raised \in BOOLEAN : LoopCheck(i, raised)
    \/ \E i \in 1..MaxStarts : LoopWake(i)

SpecLifecycle == InitLifecycle /\ [][NextLifecycle]_vars

(* C36: after any sequence of start_background_tasks and                    *)
(* stop_background_tasks calls at most one poller loop is running, and      *)
(* whenever the most recent call was start_background_tasks a poller loop   *)
(* is running, also when start follows stop before the old loop has seen    *)
(* the flag.                                                                *)
C36_OneLoopWhileStarted ==
    /\ Cardinality(AliveLoops) <= 1
    /\ result.op = "start_background_tasks" => Cardinality(AliveLoops) = 1


(* Notifications of every kind come in for the messages that arrived; the   *)
(* continuation of a scheduled one meets no fault.                          *)
NextGate ==
    \/ \E m \in MsgIds : Arrive(m, {"INBOX", "UNREAD"})
    \/ \E req \in WebhookRequests : gmail_webhook(req)
    \/ _process_webhook_message(Happy)

SpecGate == Init /\ [][NextGate]_vars

(* The request passes the three checks of gmail_webhook: the secret header  *)
(* equals the configured secret or none is configured, the subscription     *)
(* name ends in user-<digits>, and the look-up finds a user with that id.   *)
PassesWebhookChecks(req) ==
    /\ req.json = "ok"
    /\ req.secret \in {"ok", "not_configured"}
    /\ req.subscription = "ok"

(* C37: gmail_webhook schedules the background processing only for a        *)
(* request that passes the three checks; for every other request nothing is *)
(* scheduled and no pipeline step runs: the mailbox, the rate limits, the   *)
(* cache and the index are as before.                                       *)
C37_ScheduledOnlyWhenChecked ==
    [][\A req \in WebhookRequests :
          (result'.op = "gmail_webhook" /\ gmail_webhook(req))
             => /\ pending' # pending => PassesWebhookChecks(req)
                /\ ~PassesWebhookChecks(req)
                      => /\ pending' = pending
                         /\ mailbox' = mailbox
                         /\ gmail_rate_limits' = gmail_rate_limits
                         /\ processed_message_ids' = processed_message_ids
                         /\ vector_index' = vector_index]_vars

(* A notification was scheduled and acknowledged, and nothing of it has run *)
(* yet.                                                                     *)
C37_Witness ==
    /\ result.op = "gmail_webhook"
    /\ result.status = "none"
    /\ Len(pending) = 1
    /\ Head(pending).kind = "emailId"
    /\ mailbox[ThreadOf(Head(pending).id)] # <<>>
    /\ RepliesIn(mailbox[ThreadOf(Head(pending).id)]) = 0


(* ---------------- the enabled switch and the two delivery paths ---------------- *)
(* The user switches auto-reply on and off through the config route while   *)
(* notifications are handled on the server's loop and the poller runs in    *)
(* its thread; nothing else goes wrong.                                     *)
NextSwitch ==
    \/ \E m \in MsgIds : Arrive(m, {"INBOX", "UNREAD"})
    \/ UpdateConfig
    \/ \E m \in MsgIds : gmail_webhook(GoodRequest([kind |-> "emailId", id |-> m]))
    \/ _process_webhook_message(Happy)
    \/ PollStart("ok")
    \/ PollStep(Happy)
    \/ PollFinish

SpecSwitch == Init /\ [][NextSwitch]_vars

(* C38: no automated reply is sent, through the webhook path or through the *)
(* poll path, while the user's auto-reply config has enabled = false.       *)
C38_NoReplyWhileDisabled ==
    [][(\E t \in ThreadIds : RepliesIn(mailbox'[t]) > RepliesIn(mailbox[t]))
          => auto_reply_configs.enabled]_vars


(* ---------------- periodic_email_check, batch by batch ---------------- *)
BatchUserIds == 1..MaxBatchUsers

(* poll.i is the loop variable of "for i in range(0, len(auto_reply_users), *)
(* BATCH_SIZE)", poll.todo what is left of the batch, poll.log what the     *)
(* cycle did so far: the id of a user for a call of check_emails_for_user,  *)
(* 0 for asyncio.sleep(2).                                                  *)
IdleBatch == [pc |-> "idle", users |-> <<>>, i |-> 0, todo |-> <<>>, log |-> <<>>]

InitBatch ==
    /\ now = 0
    /\ mailbox = [t \in ThreadIds |-> <<>>]
    /\ labels = [m \in MsgIds |-> {}]
    /\ history = <<>>
    /\ gmail_rate_limits = <<>>
    /\ processed_message_ids = {}
    /\ monitored_threads = {}
    /\ vector_index = [t \in ThreadIds |-> NoRecord]
    /\ last_history_ids = [u \in BatchUserIds |-> NoCursor]
    /\ auto_reply_configs = [u \in BatchUserIds |-> [enabled |-> TRUE]]
    /\ pending = <<>>
    /\ poll = IdleBatch
    /\ workers = <<>>
    /\ sessions = <<>>
    /\ result = [op |-> "none"]

BatchUnchanged ==
    UNCHANGED <<now, mailbox, labels, history, gmail_rate_limits, processed_message_ids,
                monitored_threads, vector_index, pending, workers, sessions>>

(* Lines 141-163: the users whose config says enabled, in the order of the  *)
(* query.                                                                   *)
BatchCycleStart ==
    /\ poll.pc = "idle"
    /\ poll' = [IdleBatch EXCEPT
                   !.pc = "for",
                   !.users = InOrder({u \in BatchUserIds : auto_reply_configs[u].enabled})]
    /\ UNCHANGED <<last_history_ids, auto_reply_configs, result>>
    /\ BatchUnchanged

(* Lines 165-166: batch = auto_reply_users[i : i + BATCH_SIZE]. *)
BatchSlice ==
    /\ poll.pc = "for"
    /\ poll.i < Len(poll.users)
    /\ LET to == IF poll.i + BATCH_SIZE < Len(poll.users)
                 THEN poll.i + BATCH_SIZE ELSE Len(poll.users) IN
       poll' = [poll EXCEPT !.pc = "batch", !.todo = SubSeq(poll.users, poll.i + 1, to)]
    /\ UNCHANGED <<last_history_ids, auto_reply_configs, result>>
    /\ BatchUnchanged

(* Lines 169-172: the next user of the batch is checked; the call returns   *)
(* whatever is raised inside it, and the loop stays at the await when a     *)
(* provider call inside it does not come back.                              *)
BatchCheck(pf, latest_history_id) ==
    /\ poll.pc = "batch"
    /\ poll.todo # <<>>
    /\ LET user == Head(poll.todo)
           r == check_emails_for_user(last_history_ids[user], pf, latest_history_id) IN
       IF ~r.returned
       THEN /\ poll' = [poll EXCEPT !.pc = "hung", !.log = Append(@, user)]
            /\ UNCHANGED last_history_ids
       ELSE /\ poll' = [poll EXCEPT !.todo = Tail(@), !.log = Append(@, user)]
            /\ last_history_ids' = [last_history_ids EXCEPT ![user] = r.cursor]
    /\ UNCHANGED <<auto_reply_configs, result>>
    /\ BatchUnchanged

(* the end of a batch with a pause after every batch, the last one too *)
BatchEnd_pause_always ==
    /\ poll.pc = "batch"
    /\ poll.todo = <<>>
    /\ poll' = [poll EXCEPT !.pc = "for", !.i = @ + BATCH_SIZE, !.log = Append(@, 0)]
    /\ UNCHANGED <<last_history_ids, auto_reply_configs, result>>
    /\ BatchUnchanged

(* Lines 174-176: "if i + BATCH_SIZE < len(auto_reply_users): await         *)
(* asyncio.sleep(2)", then the next round of the for loop.                  *)
BatchEnd ==
    /\ poll.pc = "batch"
    /\ poll.todo = <<>>
    /\ poll' = [poll EXCEPT
                   !.pc = "for",
                   !.i = @ + BATCH_SIZE,
                   !.log = IF poll.i + BATCH_SIZE < Len(poll.users) THEN Append(@, 0) ELSE @]
    /\ UNCHANGED <<last_history_ids, auto_reply_configs, result>>
    /\ BatchUnchanged

(* Lines 178-183: the range is used up; the session is closed and the loop  *)
(* sleeps CHECK_INTERVAL.                                                   *)
BatchCycleFinish ==
    /\ poll.pc = "for"
    /\ poll.i >= Len(poll.users)
    /\ result' = [op |-> "periodic_email_check", users |-> poll.users, log |-> poll.log]
    /\ poll' = IdleBatch
    /\ UNCHANGED <<last_history_ids, auto_reply_configs>>
    /\ BatchUnchanged

NextBatch ==
    \/ \E u \in BatchUserIds : SetEnabled(u)
    \/ BatchCycleStart
    \/ BatchSlice
    \/ \E pf \in {"ok", "rate_limited", "pipeline_exception", "hang"} : BatchCheck(pf, 1)
    \/ BatchEnd
    \/ BatchCycleFinish

SpecBatch == InitBatch /\ [][NextBatch]_vars

IsCheck(x) == x # 0

(* The log of a cycle over users: the users once each in their order, in    *)
(* runs of at most BATCH_SIZE, one pause between two runs, none at either   *)
(* end.                                                                     *)
WellBatched(users, log) ==
    /\ SelectSeq(log, IsCheck) = users
    /\ log # <<>> => (log[1] # 0 /\ log[Len(log)] # 0)
    /\ \A k \in 1..(Len(log) - 1) : ~(log[k] = 0 /\ log[k + 1] = 0)
    /\ \A k \in 1..(Len(log) - BATCH_SIZE) : \E j \in k..(k + BATCH_SIZE) : log[j] = 0

(* C39: in each poll cycle every user whose config is enabled is checked    *)
(* exactly once, one after the other, in batches of at most BATCH_SIZE      *)
(* users, with a pause between two consecutive batches and none after the   *)
(* last batch.                                                              *)
C39_BatchesWithPauses ==
    /\ [](result.op = "periodic_email_check" => WellBatched(result.users, result.log))
    /\ [](poll.pc # "idle" =>
             \E n \in 0..Len(poll.users) :
                 SelectSeq(poll.log, IsCheck) = SubSeq(poll.users, 1, n))
    /\ [][(poll.pc = "idle" /\ poll'.pc # "idle")
             => poll'.users = InOrder({u \in BatchUserIds : auto_reply_configs[u].enabled})]_vars

(* A cycle over more users than one batch holds has ended: it paused.       *)
C39_Witness ==
    /\ result.op = "periodic_email_check"
    /\ Len(result.users) > BATCH_SIZE
    /\ \E k \in 1..Len(result.log) : result.log[k] = 0

====
